---- MODULE Spec2Model ----
(***************************************************************************)
(* Presence estimation and safety classification of eyes-on-the-street.   *)
(*                                                                         *)
(* The model follows the current server (src/unnamed/part_002, the file    *)
(* that README.md documents; src/server.js is an earlier revision of the   *)
(* same file with an identical computeSafetyLevel).                        *)
(*                                                                         *)
(* Number representation.  crimeRisk is a number with three decimals       *)
(* (build-crime-model.js rounds it with Math.round(x * 1000) / 1000), so   *)
(* it is carried in thousandths: 0.8 is 800.  Ridership, baseline, stddev  *)
(* and train counts are integers in the code.  The two products that are   *)
(* handed to Math.round are IEEE-754 doubles; MathRoundProduct computes    *)
(* what the double computation yields, including the cases where the       *)
(* exact product is k + 1/2 and the double product falls just below it.    *)
(***************************************************************************)
EXTENDS Integers, Sequences, FiniteSets, TLC

VARIABLES
  cRidership,   \* classification: argument ridership of computeSafetyLevel
  cCrimeRisk,   \* classification: argument crimeRisk, in thousandths
  cHour,        \* classification: argument hour
  cLevel,       \* classification: the tier returned, "none" before the call
  eDisruption,  \* escalation: disruptedComplexes[id], NoDisruption when absent
  eHour,        \* escalation: hour of the cycle
  eTrace,       \* escalation: the tier before and after each application
  sIn,          \* station step: the inputs of one loop iteration
  sRec,         \* station step: the record pushed to stationList
  ridershipModel,     \* ridershipModel.stations
  crimeModel,         \* crimeModel.stationRisk
  gtfsStopToComplex,  \* GTFS stop id -> station complex id
  apiKey,             \* process.env.OPENWEATHER_API_KEY is set
  wallClock,          \* the day and hour new Date() yields
  weatherCache,       \* weatherCache.data
  feedCache,          \* feedCache.data
  alertsCache,        \* cache['alerts']
  live,               \* the live signals of the last computePresence call
  response,           \* what the last computePresence call returned
  cycles,             \* the number of computePresence calls so far
  ridershipSource,    \* ridership builder: what fetchAllData yields
  ridershipFile,      \* models/ridership-model.json
  ridershipExit,      \* ridership builder: how the process ended
  crimeSource,        \* crime builder: what fetchCrimes yields
  crimeFile,          \* models/crime-model.json
  crimeFileBefore,    \* crime-model.json as the crime builder found it
  crimeExit,          \* crime builder: how the process ended
  riskComputed,       \* crime builder: computeStationRisk was called
  clock,              \* Date.now(), in ticks of ten seconds
  presenceCache,      \* cache['presence']
  pending,            \* the /api/presence requests that await fetchFn()
  served,             \* the responses of the /api/presence handler so far
  invoked,            \* the clock readings at which computePresence was called
  overlapped,         \* some request arrived while another was pending
  nextId,             \* the number of the next request
  dAlerts,            \* disruption step: alertData.alerts
  dComplexes,         \* disruption step: disruptedComplexes after the loop
  dDone,              \* disruption step: the loop has run
  stationPromise,     \* stationPromise: "null", "pending" or "resolved"
  loadStarts,         \* the number of _loadStations() calls so far
  handed,             \* the promise each loadStations() call returned, by number
  stationDownload,    \* what the download of the station rows yields
  clientLevel,        \* front end: the tier computeSafetyLevelClient returned
  bootPc,             \* front end: where the boot sequence stands
  exploreMode,        \* front end: exploreMode, "uninitialized" before its let
  presenceData,       \* front end: presenceData, 0 for null, else the response
  inflight,           \* front end: the fetchPresence calls awaiting their response
  fetchCount,            \* front end: the number of fetchPresence calls so far
  hud,                \* front end: what the three HUD counters show
  mapSource,          \* front end: the data of the map's 'presence' source
  status,             \* front end: the text of statusText
  clientModels,       \* front end: the client-side models, "null" or "loaded"
  stationData,        \* pulse rings: stationData, the stations of the last setStations
  pulseRings,         \* pulse rings: the rings alive
  previousTrainStops, \* pulse rings: previousTrainStops
  lastTrains,         \* pulse rings: the trains of the most recent update
  updates             \* pulse rings: the number of onTrainUpdate calls so far

harnessVars == <<cRidership, cCrimeRisk, cHour, cLevel,
                 eDisruption, eHour, eTrace, sIn, sRec>>

presenceVars == <<ridershipModel, crimeModel, gtfsStopToComplex, apiKey,
                  wallClock, weatherCache, feedCache, alertsCache, live,
                  response, cycles>>

builderVars == <<ridershipSource, ridershipFile, ridershipExit, crimeSource,
                 crimeFile, crimeFileBefore, crimeExit, riskComputed>>

cacheVars == <<clock, presenceCache, pending, served, invoked, overlapped,
               nextId>>

disruptionVars == <<dAlerts, dComplexes, dDone>>

stationVars == <<stationPromise, loadStarts, handed, stationDownload>>

clientVars == <<clientLevel, bootPc, exploreMode, presenceData, inflight,
                fetchCount, hud, mapSource, status, clientModels>>

pulseVars == <<stationData, pulseRings, previousTrainStops, lastTrains, updates>>

vars == <<harnessVars, presenceVars, builderVars, cacheVars,
          disruptionVars, stationVars, clientVars, pulseVars>>

----------------------------------------------------------------------------
(* Bounds of the model *)

MaxRidership == 30

MaxSmallBaseline == 60

MaxTrainCount == 13

MaxApply == 2

MaxCycles == 2

MaxRows == 3

MaxCrimes == 3

MaxBatch == 2

MaxClock == 5

MaxRequests == 3

MaxAlerts == 3

MaxCalls == 4

MaxFetches == 3

MaxTrains == 2

MaxUpdates == 2

----------------------------------------------------------------------------
(* Program constants *)

Hours == 0 .. 23

Tiers == {"safe", "caution", "avoid"}

\* ALERT_EFFECT: the effect strings an alert can carry
ALERT_EFFECT ==
  {"No Service", "Reduced Service", "Significant Delays", "Detour",
   "Additional Service", "Modified Service", "Other", "Unknown", "Stop Moved"}

\* disruptedComplexes[id] of a station without an alert (undefined)
NoDisruption == [effect |-> "none", routes |-> <<>>]

\* weather === null (fetchWeather without API key, or failed without cache)
NoWeather == [isNull |-> TRUE, isSnow |-> FALSE, isRain |-> FALSE, isExtreme |-> FALSE]

----------------------------------------------------------------------------
(* Safety classification policy *)

\* A plausible slip: the evening "avoid" row with the ridership bound of the
\* late-night row.
computeSafetyLevelEveningBound(ridership, crimeRisk, hour) ==
  LET isNight == hour >= 22 \/ hour < 6
      isEvening == hour >= 18 /\ hour < 22
  IN  IF ~isNight /\ ~isEvening
        THEN IF crimeRisk >= 800 /\ ridership < 15 THEN "caution" ELSE "safe"
      ELSE IF isEvening
        THEN IF crimeRisk >= 700 /\ ridership < 15 THEN "avoid"
             ELSE IF crimeRisk >= 500 /\ ridership < 15 THEN "caution"
             ELSE "safe"
      ELSE IF crimeRisk >= 500 /\ ridership < 15 THEN "avoid"
      ELSE IF crimeRisk >= 300 /\ ridership < 25 THEN "caution"
      ELSE IF ridership < 5 /\ crimeRisk >= 150 THEN "caution"
      ELSE "safe"

\* A plausible slip: the last late-night row without its crime condition, so
\* that an empty platform alone is flagged.
computeSafetyLevelQuietAlone(ridership, crimeRisk, hour) ==
  LET isNight == hour >= 22 \/ hour < 6
      isEvening == hour >= 18 /\ hour < 22
  IN  IF ~isNight /\ ~isEvening
        THEN IF crimeRisk >= 800 /\ ridership < 15 THEN "caution" ELSE "safe"
      ELSE IF isEvening
        THEN IF crimeRisk >= 700 /\ ridership < 25 THEN "avoid"
             ELSE IF crimeRisk >= 500 /\ ridership < 15 THEN "caution"
             ELSE "safe"
      ELSE IF crimeRisk >= 500 /\ ridership < 15 THEN "avoid"
      ELSE IF crimeRisk >= 300 /\ ridership < 25 THEN "caution"
      ELSE IF ridership < 5 THEN "caution"
      ELSE "safe"

\* computeSafetyLevel(ridership, crimeRisk, hour)
computeSafetyLevel(ridership, crimeRisk, hour) ==
  LET isNight == hour >= 22 \/ hour < 6
      isEvening == hour >= 18 /\ hour < 22
  IN  IF ~isNight /\ ~isEvening
        THEN \* DAYTIME (6am-6pm)
             IF crimeRisk >= 800 /\ ridership < 15 THEN "caution" ELSE "safe"
      ELSE IF isEvening
        THEN \* EVENING (6pm-10pm)
             IF crimeRisk >= 700 /\ ridership < 25 THEN "avoid"
             ELSE IF crimeRisk >= 500 /\ ridership < 15 THEN "caution"
             ELSE "safe"
      \* LATE NIGHT (10pm-6am)
      ELSE IF crimeRisk >= 500 /\ ridership < 15 THEN "avoid"
      ELSE IF crimeRisk >= 300 /\ ridership < 25 THEN "caution"
      ELSE IF ridership < 5 /\ crimeRisk >= 150 THEN "caution"
      ELSE "safe"

----------------------------------------------------------------------------
(* The front end: the classifier of explore mode and what the page shows *)

\* A plausible slip: the evening window of the client ending at 21.
computeSafetyLevelClientShortEvening(ridership, crimeRisk, hour) ==
  LET isNight == hour >= 22 \/ hour < 6
      isEvening == hour >= 18 /\ hour < 21
  IN  IF ~isNight /\ ~isEvening
        THEN IF crimeRisk >= 800 /\ ridership < 15 THEN "caution" ELSE "safe"
      ELSE IF isEvening
        THEN IF crimeRisk >= 700 /\ ridership < 25 THEN "avoid"
             ELSE IF crimeRisk >= 500 /\ ridership < 15 THEN "caution"
             ELSE "safe"
      ELSE IF crimeRisk >= 500 /\ ridership < 15 THEN "avoid"
      ELSE IF crimeRisk >= 300 /\ ridership < 25 THEN "caution"
      ELSE IF ridership < 5 /\ crimeRisk >= 150 THEN "caution"
      ELSE "safe"

\* computeSafetyLevelClient(ridership, crimeRisk, hour)
computeSafetyLevelClient(ridership, crimeRisk, hour) ==
  LET isNight == hour >= 22 \/ hour < 6
      isEvening == hour >= 18 /\ hour < 22
  IN  IF ~isNight /\ ~isEvening
        THEN IF crimeRisk >= 800 /\ ridership < 15 THEN "caution" ELSE "safe"
      ELSE IF isEvening
        THEN IF crimeRisk >= 700 /\ ridership < 25 THEN "avoid"
             ELSE IF crimeRisk >= 500 /\ ridership < 15 THEN "caution"
             ELSE "safe"
      ELSE IF crimeRisk >= 500 /\ ridership < 15 THEN "avoid"
      ELSE IF crimeRisk >= 300 /\ ridership < 25 THEN "caution"
      ELSE IF ridership < 5 /\ crimeRisk >= 150 THEN "caution"
      ELSE "safe"

\* what an element of the page shows: its initial content, the live data
\* of a response, or the explore data of an hour
Initial == [from |-> "initial", of |-> 0]

Live(data) == [from |-> "live", of |-> data]

Explore(hour) == [from |-> "explore", of |-> hour]

InitialHud ==
  [presenceCount |-> Initial, stationCount |-> Initial,
   anomalyCount |-> Initial]

\* the page as [hud, mapSource] after the part of fetchPresence that
\* follows "if (exploreMode) return"
showLive(data) ==
  [hud |-> [presenceCount |-> Live(data), stationCount |-> Live(data),
            anomalyCount |-> Live(data)],
   mapSource |-> Live(data)]

\* renderExploreMode(hour): nothing without the client-side models, else
\* the map source, presenceCount and anomalyCount of the explore data
renderExploreMode(hour, models, page) ==
  IF models # "loaded" THEN page
  ELSE [hud |-> [page.hud EXCEPT !.presenceCount = Explore(hour),
                                 !.anomalyCount = Explore(hour)],
        mapSource |-> Explore(hour)]

\* leaving explore mode: the map source, presenceCount and anomalyCount of
\* presenceData, if there is one
restoreLive(data, page) ==
  IF data = 0 THEN page
  ELSE [hud |-> [page.hud EXCEPT !.presenceCount = Live(data),
                                 !.anomalyCount = Live(data)],
        mapSource |-> Live(data)]

\* the hour of new Date() at a click on the toggle
ClockHours == {9}

\* the hours that the slider yields
ScrubberHours == {9, 23}

----------------------------------------------------------------------------
(* The front end: pulse rings of StationLayer *)

RING_DURATION == 90

ANOMALY_PULSE_SPEED == 2

\* the animation frames that one Render step stands for
Frames == 45

\* stopId.replace(/[NS]$/, ''), a stop id being the sequence of its
\* characters
stripDirection(stopId) ==
  IF stopId # <<>> /\ stopId[Len(stopId)] \in {"N", "S"}
    THEN SubSeq(stopId, 1, Len(stopId) - 1)
    ELSE stopId

\* the first loop of detectArrivals: currentStops in the order of
\* insertion, n the number of trains handled
RECURSIVE currentStops(_, _)
currentStops(trains, n) ==
  IF n = 0 THEN <<>>
  ELSE LET before == currentStops(trains, n - 1)
           train == trains[n]
           stopId == stripDirection(train.stopId)
       IN  IF /\ train.status \in {"At Station", "Incoming"}
              /\ train.hasStopId /\ stopId # <<>>
              /\ \A i \in DOMAIN before : before[i] # stopId
             THEN Append(before, stopId)
             ELSE before

\* A plausible slip: arrivals without the test of previousTrainStops, so
\* that a stop pulses in every update in which it is occupied.
detectArrivalsEveryUpdate(trains, previous) ==
  LET current == currentStops(trains, Len(trains))
  IN  [arrivals |-> current,
       previousTrainStops |-> {current[i] : i \in DOMAIN current}]

\* detectArrivals(trains): the arrivals and the previousTrainStops it leaves
detectArrivals(trains, previous) ==
  LET current == currentStops(trains, Len(trains))
  IN  [arrivals |-> SelectSeq(current, LAMBDA stopId : stopId \notin previous),
       previousTrainStops |-> {current[i] : i \in DOMAIN current}]

\* createRing(lat, lon, isAnomaly); at is the station whose lat and lon
\* the ring has
createRing(at, isAnomaly) ==
  [at |-> at, age |-> 0, maxAge |-> RING_DURATION, isAnomaly |-> isAnomaly,
   speed |-> IF isAnomaly THEN ANOMALY_PULSE_SPEED ELSE 1]

\* the loop of onTrainUpdate over the first n arrivals
RECURSIVE pushRings(_, _, _, _)
pushRings(rings, arrivals, n, stations) ==
  IF n = 0 THEN rings
  ELSE LET before == pushRings(rings, arrivals, n - 1, stations)
           matching == {i \in DOMAIN stations : stations[i].id = arrivals[n]}
       IN  IF matching = {} THEN before
           ELSE LET found == stations[CHOOSE i \in matching :
                                        \A j \in matching : i <= j]
                IN  Append(before, createRing(found.id, found.isAnomaly))

\* the loop of render() over the rings, run for Frames frames
render(rings) ==
  SelectSeq([i \in DOMAIN rings |->
               [rings[i] EXCEPT !.age = @ + Frames * rings[i].speed]],
            LAMBDA ring : ring.age < ring.maxAge)

----------------------------------------------------------------------------
(* Disruption escalation *)

\* A plausible slip: "Significant Delays" escalates at any hour.
escalateDelaysAnyHour(safetyLevel, disruption, isNight) ==
  IF disruption # NoDisruption
    THEN IF disruption.effect = "No Service"
           THEN IF safetyLevel = "safe" THEN "caution"
                ELSE IF safetyLevel = "caution" THEN "avoid"
                ELSE safetyLevel
         ELSE IF disruption.effect = "Significant Delays"
           THEN IF safetyLevel = "safe" THEN "caution" ELSE safetyLevel
         ELSE safetyLevel
    ELSE safetyLevel

\* A plausible slip: "Significant Delays" at night escalates one tier, as
\* "No Service" does.
escalateDelaysOneTier(safetyLevel, disruption, isNight) ==
  IF disruption # NoDisruption
    THEN IF disruption.effect = "No Service"
           THEN IF safetyLevel = "safe" THEN "caution"
                ELSE IF safetyLevel = "caution" THEN "avoid"
                ELSE safetyLevel
         ELSE IF disruption.effect = "Significant Delays" /\ isNight
           THEN IF safetyLevel = "safe" THEN "caution"
                ELSE IF safetyLevel = "caution" THEN "avoid"
                ELSE safetyLevel
         ELSE safetyLevel
    ELSE safetyLevel

\* computePresence, "Alert-aware risk elevation": the tier after the
\* disruption of the station has been taken into account
escalate(safetyLevel, disruption, isNight) ==
  IF disruption # NoDisruption
    THEN IF disruption.effect = "No Service"
           THEN \* No Service: escalate one tier
                IF safetyLevel = "safe" THEN "caution"
                ELSE IF safetyLevel = "caution" THEN "avoid"
                ELSE safetyLevel
         ELSE IF disruption.effect = "Significant Delays" /\ isNight
           THEN \* Significant Delays at night only: safe -> caution
                IF safetyLevel = "safe" THEN "caution" ELSE safetyLevel
         ELSE safetyLevel
    ELSE safetyLevel

\* const isNight = hour >= 22 || hour < 6
isNightHour(hour) == hour >= 22 \/ hour < 6

----------------------------------------------------------------------------
(* Math.round on the doubles of the modulation *)

\* Math.round(n / d) for an exact quotient, d > 0: the nearest integer,
\* halves towards plus infinity
MathRound(n, d) == (2 * n + d) \div (2 * d)

RECURSIVE Pow2Floor(_, _)
\* the largest p * 2^k that does not exceed v (the binade of the double v)
Pow2Floor(v, p) == IF 2 * p <= v THEN Pow2Floor(v, 2 * p) ELSE p

\* Math.round(b * f), b an integer and f a double whose value is
\* n / d + (err / 75) * 2^-53.  The double product differs from the exact one
\* only by its last bit, which matters only when b * n / d is k + 1/2: the
\* product then falls below k + 1/2 (and rounds to k) exactly when the
\* error b * |err| exceeds half an ulp of the product.
MathRoundProduct(b, n, d, err) ==
  LET exact == b * n
      isHalf == (2 * exact) % d = 0 /\ ((2 * exact) \div d) % 2 = 1
      below == b * (0 - err) > 75 * Pow2Floor(exact \div d, 1)
  IN  IF isHalf /\ below THEN exact \div d ELSE MathRound(exact, d)

\* The double 0.7 + 0.3 * (trainCount / expectedTrains) minus the exact
\* (7e + 3t) / (10e), in units of 2^-53 / 75, for every trainCount below the
\* 2.0 cap.
ModulationError ==
  [e \in {3, 5, 8, 12} |->
     CASE e = 3 -> <<-45, -60, 0, -90, -30, -120, -60, 0, -90, -30, -120, -60>>
       [] e = 5 -> <<6, -33, -72, -36, 0, 36, -78, -42, -6, -120, -84, -48,
                     -12, 24, -90, -54, -18, 18, -96, -60, -24>>
       [] e = 8 -> <<-45, -60, 0, -15, -30, -45, -60, 0, -90, -30, -120, -60,
                     0, 60, -30, -120, -60, 0, 60, -30, -120, -60, 0, -90,
                     -30, -120, -60, 0, -90, -30, -120, -60, 0, -90>>
       [] e = 12 -> <<-15, 0, -60, -45, -30, -15, 0, -60, -45, -30, -90, 0,
                      -60, 30, -30, -90, 0, -60, -120, -30, 60, 0, -60, -120,
                      -30, -90, 0, -60, -120, -30, 60, 0, -60, -120, -180,
                      -90, 0, -60, -120, -30, -90, 0, -60, -120, -30, -90,
                      -150, -60, -120, -30, -90>>]

\* The doubles 0.70, 0.80, 0.85 and 1.0 minus their decimal values, in units
\* of 2^-53 / 75; the modifier is carried in hundredths.
LiteralError(modifier) ==
  CASE modifier = 70 -> -30
    [] modifier = 80 -> 30
    [] modifier = 85 -> -15
    [] OTHER -> 0

----------------------------------------------------------------------------
(* computePresence: weather modifier and the body of the station loop *)

\* A plausible slip: the extreme-temperature branch tested first.
weatherModifierExtremeFirst(weather) ==
  IF ~weather.isNull
    THEN IF weather.isExtreme THEN 85
         ELSE IF weather.isSnow THEN 70
         ELSE IF weather.isRain THEN 80
         ELSE 100
    ELSE 100

\* let weatherModifier = 1.0; if (weather) { ... }, in hundredths
weatherModifier(weather) ==
  IF ~weather.isNull
    THEN IF weather.isSnow THEN 70
         ELSE IF weather.isRain THEN 80
         ELSE IF weather.isExtreme THEN 85
         ELSE 100
    ELSE 100

\* A plausible slip: the tiers compared with >= instead of >.
expectedTrainsInclusive(baseline) ==
  IF baseline >= 5000 THEN 12
  ELSE IF baseline >= 2000 THEN 8
  ELSE IF baseline >= 500 THEN 5
  ELSE 3

\* const expectedTrains = baseline > 5000 ? 12 : baseline > 2000 ? 8 :
\*                        baseline > 500 ? 5 : 3
expectedTrains(baseline) ==
  IF baseline > 5000 THEN 12
  ELSE IF baseline > 2000 THEN 8
  ELSE IF baseline > 500 THEN 5
  ELSE 3

\* A plausible slip: the modulation without its Math.min(modulation, 2.0).
trainModulatedUncapped(baseline, trainCount) ==
  IF trainCount > 0 /\ baseline > 0
    THEN LET e == expectedTrains(baseline)
         IN  MathRound(baseline * (7 * e + 3 * trainCount), 10 * e)
    ELSE baseline

\* A plausible slip: the modulation without its 0.7 floor,
\* modulation = trainCount / expectedTrains.
trainModulatedNoFloor(baseline, trainCount) ==
  IF trainCount > 0 /\ baseline > 0
    THEN LET e == expectedTrains(baseline)
         IN  IF trainCount >= 2 * e
               THEN 2 * baseline
               ELSE MathRound(baseline * trainCount, e)
    ELSE baseline

\* ridership after "Modulate by actual train frequency":
\* modulation = 0.7 + 0.3 * (trainCount / expectedTrains) is
\* (7e + 3t) / (10e); ridership = Math.round(baseline * Math.min(modulation, 2.0))
trainModulated(baseline, trainCount) ==
  IF trainCount > 0 /\ baseline > 0
    THEN LET e == expectedTrains(baseline)
             num == 7 * e + 3 * trainCount
             den == 10 * e
         IN  IF num >= 2 * den
               THEN 2 * baseline
               ELSE MathRoundProduct(baseline, num, den,
                                     ModulationError[e][trainCount])
    ELSE baseline

\* ridership = Math.round(ridership * weatherModifier)
applyWeather(ridership, modifier) ==
  MathRoundProduct(ridership, modifier, 100, LiteralError(modifier))

\* A plausible slip: the weather modifier applied to the baseline, which
\* discards the train modulation.
modulatedRidershipOnBaseline(baseline, trainCount, modifier) ==
  applyWeather(baseline, modifier)

\* the ridership of a station after both modulations
modulatedRidership(baseline, trainCount, modifier) ==
  applyWeather(trainModulated(baseline, trainCount), modifier)

Abs(x) == IF x < 0 THEN 0 - x ELSE x

\* A plausible slip: a three-sigma test.
isAnomalyThreeSigma(ridership, baseline, stddev) ==
  IF stddev > 0 /\ baseline > 50
    THEN Abs(ridership - baseline) > 3 * stddev
    ELSE 10 * Abs(ridership - baseline) > 3 * baseline /\ baseline > 50

\* isAnomaly: |zScore| > 2.0 with zScore = (ridership - baseline) / stddev,
\* else |anomalyScore| > 0.3 && baseline > 50 with
\* anomalyScore = baseline > 0 ? (ridership - baseline) / baseline : 0
isAnomaly(ridership, baseline, stddev) ==
  IF stddev > 0 /\ baseline > 50
    THEN Abs(ridership - baseline) > 2 * stddev
    ELSE 10 * Abs(ridership - baseline) > 3 * baseline /\ baseline > 50

\* A plausible slip: the score truncated to three decimals with Math.floor.
anomalyScoreFloor(ridership, baseline) ==
  IF baseline > 0 THEN (1000 * (ridership - baseline)) \div baseline ELSE 0

\* The anomalyScore field of a record, in thousandths:
\* Math.round(anomalyScore * 1000) / 1000 with
\* anomalyScore = baseline > 0 ? (ridership - baseline) / baseline : 0.
\* Math.round rounds a half towards +Infinity.  The quotient and the product
\* are doubles: where the exact value is k + 1/2 the double product is
\* k + 1/2 too, except for 500 <= k <= 511 (ridership <= 2 * baseline + 1),
\* where it falls just below.
anomalyScore(ridership, baseline) ==
  IF baseline > 0
    THEN LET n == 1000 * (ridership - baseline)
             isHalf == (2 * n) % baseline = 0 /\ ((2 * n) \div baseline) % 2 = 1
             k == n \div baseline
         IN  IF isHalf /\ 500 <= k /\ k <= 511 THEN k ELSE MathRound(n, baseline)
    ELSE 0

\* One iteration of "for (const [id, station] of Object.entries(...))": the
\* record pushed to stationList.  in.baseline is hourlyData[hour] || 0,
\* in.stddev is stddevData?.[hour] || 0, in.trainCount is
\* trainsByComplex[id] || 0, in.crimeRisk the looked-up risk of the hour and
\* in.disruption is disruptedComplexes[id].
stationRecord(in) ==
  LET ridership == modulatedRidership(in.baseline, in.trainCount,
                                      weatherModifier(in.weather))
      classified == computeSafetyLevel(ridership, in.crimeRisk, in.hour)
  IN  [ridership |-> ridership,
       baseline |-> in.baseline,
       anomalyScore |-> anomalyScore(ridership, in.baseline),
       isAnomaly |-> isAnomaly(ridership, in.baseline, in.stddev),
       trainCount |-> in.trainCount,
       crimeRisk |-> in.crimeRisk,
       safetyLevel |-> escalate(classified, in.disruption, isNightHour(in.hour)),
       hasDisruption |-> in.disruption # NoDisruption,
       disruptionEffect |-> in.disruption.effect]

----------------------------------------------------------------------------
(* Input spaces *)

\* the thresholds computeSafetyLevel compares crimeRisk with, in thousandths
RiskThresholds == {150, 300, 500, 700, 800}

\* crimeRisk values: a grid over [0, 1] and both sides of every threshold
RiskValues ==
  {k * 50 : k \in 0 .. 20}
    \cup RiskThresholds \cup {t - 1 : t \in RiskThresholds}

\* what fetchWeather can return: null, or flags of which isSnow and isRain
\* exclude each other (both are derived from the one condition string)
Weathers ==
  {NoWeather} \cup
  {w \in [isNull : {FALSE}, isSnow : BOOLEAN, isRain : BOOLEAN,
          isExtreme : BOOLEAN] : ~(w.isSnow /\ w.isRain)}

\* what disruptedComplexes[id] can hold
Disruptions ==
  {NoDisruption} \cup {[effect |-> e, routes |-> <<"A">>] : e \in ALERT_EFFECT}

BaselineValues ==
  (0 .. MaxSmallBaseline) \cup
  {40, 51, 100, 500, 501, 1000, 2000, 2001, 5000, 5001}

TrainCounts == (0 .. MaxTrainCount) \cup {8, 16, 22}

\* inputs that exercise the arithmetic of the modulation and the anomaly test
ArithmeticInputs ==
  [hour : {9}, baseline : BaselineValues, stddev : {0, 10, 150},
   trainCount : TrainCounts, weather : Weathers, crimeRisk : {200},
   disruption : {NoDisruption}]

\* inputs that exercise classification and escalation
TierInputs ==
  [hour : Hours, baseline : {0, 4, 10, 20, 30}, stddev : {0},
   trainCount : {0}, weather : {NoWeather},
   crimeRisk : {0, 150, 300, 500, 700, 900}, disruption : Disruptions]

StationInputs == ArithmeticInputs \cup TierInputs

NoInput == [hour |-> 0, baseline |-> 0, stddev |-> 0, trainCount |-> 0,
            weather |-> NoWeather, crimeRisk |-> 0, disruption |-> NoDisruption]

NoRecord == [ridership |-> -1]

----------------------------------------------------------------------------
(* computePresence: the models it reads and the live signals it acquires *)

\* const DAY_NAMES = ['Sun', 'Mon', 'Tue', 'Wed', 'Thu', 'Fri', 'Sat']
DAY_NAMES == <<"Sun", "Mon", "Tue", "Wed", "Thu", "Fri", "Sat">>

Days == {DAY_NAMES[i] : i \in 1 .. 7}

\* getTimeWindow(hour) of the server
getTimeWindow(hour) ==
  IF hour >= 6 /\ hour < 12 THEN "morning"
  ELSE IF hour >= 12 /\ hour < 18 THEN "afternoon"
  ELSE IF hour >= 18 /\ hour < 22 THEN "evening"
  ELSE "latenight"

\* A GTFS stop id is a base id and a direction suffix "N", "S" or "".
Stop(base, dir) == [base |-> base, dir |-> dir]

\* rawStopId.replace(/[NS]$/, '')
baseStop(stopId) == [stopId EXCEPT !.dir = ""]

\* the value of a lookup that finds nothing (undefined)
NoComplex == 0

\* gtfsStopToComplex[baseStop] || gtfsStopToComplex[rawStopId]
complexOf(stopToComplex, stopId) ==
  IF baseStop(stopId) \in DOMAIN stopToComplex
    THEN stopToComplex[baseStop(stopId)]
  ELSE IF stopId \in DOMAIN stopToComplex THEN stopToComplex[stopId]
  ELSE NoComplex

\* _loadStations: every row with a stop id and a complex id maps the stop
\* id and its N and S variants to the complex.  The rows are those the
\* download returned: none when it failed.
loadStations(rows) ==
  LET mapped == {i \in DOMAIN rows : rows[i].complexId # NoComplex}
      \* a later row of the same stop id overwrites an earlier one
      last(base) == CHOOSE i \in mapped :
                      /\ rows[i].stopId = base
                      /\ \A j \in mapped : rows[j].stopId = base => j <= i
  IN  [s \in {Stop(rows[i].stopId, d) : i \in mapped, d \in {"", "N", "S"}}
         |-> rows[last(s.base)].complexId]

\* A plausible slip: loadStations without "if (stationPromise) return
\* stationPromise", so that every call starts a load of its own.
singleFlightNoGuard(promise, starts) ==
  [promise |-> IF promise = "resolved" THEN "resolved" ELSE "pending",
   starts |-> starts + 1, returned |-> starts + 1]

\* loadStations(): the promise it returns, named by the number of the
\* _loadStations() call that made it, and what it leaves in stationPromise
singleFlight(promise, starts) ==
  IF promise # "null"
    THEN [promise |-> promise, starts |-> starts, returned |-> starts]
    ELSE [promise |-> "pending", starts |-> starts + 1, returned |-> starts + 1]

\* fetchWeather: the weather returned and the weatherCache it leaves.
\* cache is weatherCache.data (NoWeather for null), fresh is
\* now - weatherCache.ts < WEATHER_TTL, fetched is what the request yields
\* (NoWeather when it throws or the response is not ok).
fetchWeather(cache, fresh, hasKey, fetched) ==
  IF ~cache.isNull /\ fresh THEN [weather |-> cache, cache |-> cache]
  ELSE IF ~hasKey THEN [weather |-> NoWeather, cache |-> cache]
  ELSE IF ~fetched.isNull THEN [weather |-> fetched, cache |-> fetched]
  ELSE [weather |-> cache, cache |-> cache]

\* fetchFeed returns null when the request fails
NullFeed == [isNull |-> TRUE, entity |-> <<>>]

\* feedCache = { data: null, ts: 0 }
NoFeeds == <<>>

\* fetchAllFeeds: the feeds returned and the feedCache.data it leaves.
\* cache is feedCache.data (NoFeeds for null), fetched the array that
\* Promise.all of the fetchFeed calls yields.
fetchAllFeeds(cache, fresh, fetched) ==
  IF cache # NoFeeds /\ fresh THEN [feeds |-> cache, cache |-> cache]
  ELSE [feeds |-> fetched, cache |-> fetched]

\* arrTime > nowSec - 300 && arrTime < nowSec + 300, with arrival the
\* offset arrTime - nowSec in seconds; a missing arrival time is 0, which
\* is far in the past
inArrivalWindow(stu) ==
  stu.hasArrival /\ stu.arrival > -300 /\ stu.arrival < 300

\* the stop time updates of a feed that count as an arrival at a complex
countedArrivals(feed, stopToComplex) ==
  IF feed.isNull THEN {}
  ELSE {i \in DOMAIN feed.entity :
          /\ inArrivalWindow(feed.entity[i])
          /\ feed.entity[i].hasStopId
          /\ complexOf(stopToComplex, feed.entity[i].stopId) # NoComplex}

\* A plausible slip: the loop without its "if (!feed || !feed.entity)
\* continue", so that one failed feed throws and the catch leaves no count.
trainsByComplexAllOrNothing(feeds, stopToComplex) ==
  LET at(f, i) == complexOf(stopToComplex, feeds[f].entity[i].stopId)
      hits == UNION {{f} \X countedArrivals(feeds[f], stopToComplex)
                       : f \in DOMAIN feeds}
  IN  IF \E f \in DOMAIN feeds : feeds[f].isNull THEN [c \in {} |-> 0]
      ELSE [c \in {at(h[1], h[2]) : h \in hits}
              |-> Cardinality({h \in hits : at(h[1], h[2]) = c})]

\* trainsByComplex after the loops over feeds, entities and stop time
\* updates: the number of counted arrivals per complex
trainsByComplex(feeds, stopToComplex) ==
  LET at(f, i) == complexOf(stopToComplex, feeds[f].entity[i].stopId)
      hits == UNION {{f} \X countedArrivals(feeds[f], stopToComplex)
                       : f \in DOMAIN feeds}
  IN  [c \in {at(h[1], h[2]) : h \in hits}
         |-> Cardinality({h \in hits : at(h[1], h[2]) = c})]

\* ALERT_EFFECT[a.effect] || 'Unknown'
alertEffect(code) ==
  CASE code = 1 -> "No Service"
    [] code = 2 -> "Reduced Service"
    [] code = 3 -> "Significant Delays"
    [] code = 4 -> "Detour"
    [] code = 5 -> "Additional Service"
    [] code = 6 -> "Modified Service"
    [] code = 7 -> "Other"
    [] code = 9 -> "Stop Moved"
    [] OTHER -> "Unknown"

\* getSeverity(effect, routeCount) as its rank in severityOrder:
\* critical 0, high 1, medium 2, low 3
severityRank(code, routeCount) ==
  IF code = 1 THEN 0
  ELSE IF code = 3 THEN 1
  ELSE IF code = 2 \/ code = 4 THEN 2
  ELSE IF routeCount > 3 THEN 2
  ELSE 3

\* the elements of a sequence in order, each once:
\* if (x && !list.includes(x)) list.push(x)
RECURSIVE Distinct(_)
Distinct(seq) ==
  IF seq = <<>> THEN <<>>
  ELSE LET front == Distinct(SubSeq(seq, 1, Len(seq) - 1))
           x == seq[Len(seq)]
       IN  IF \E i \in DOMAIN front : front[i] = x THEN front
           ELSE Append(front, x)

\* extractAlerts(feed): one alert per entity, in feed order
extractAlerts(feed) ==
  IF feed.isNull THEN <<>>
  ELSE [i \in DOMAIN feed.entity |->
          LET a == feed.entity[i]
              affectedRoutes == Distinct(a.routes)
          IN  [effect |-> alertEffect(a.effect),
               affectedRoutes |-> affectedRoutes,
               affectedStops |-> Distinct(a.stops),
               severity |-> severityRank(a.effect, Len(affectedRoutes))]]

\* alerts.sort((a, b) => severityOrder[a.severity] - severityOrder[b.severity]):
\* a stable sort, so alerts of one severity keep their feed order
RECURSIVE sortBySeverity(_)
sortBySeverity(alerts) ==
  IF alerts = <<>> THEN <<>>
  ELSE LET front == sortBySeverity(SubSeq(alerts, 1, Len(alerts) - 1))
           x == alerts[Len(alerts)]
           keep == Cardinality({i \in DOMAIN front :
                                  front[i].severity <= x.severity})
       IN  SubSeq(front, 1, keep) \o <<x>> \o SubSeq(front, keep + 1, Len(front))

\* computeAlerts(): the alerts field of its result
computeAlerts(feed) == sortBySeverity(extractAlerts(feed))

\* cache['alerts'] before the first /api/alerts response (undefined)
NoAlertData == [cached |-> FALSE, alerts |-> <<>>]

\* A plausible slip: the effect of the last alert that affects a complex
\* is the one recorded.
disruptStopLastEffect(disrupted, alert, stopId, stopToComplex) ==
  LET complexId == complexOf(stopToComplex, stopId)
      entry == IF complexId \in DOMAIN disrupted THEN disrupted[complexId]
               ELSE [effect |-> alert.effect, routes |-> <<>>]
  IN  IF complexId = NoComplex THEN disrupted
      ELSE (complexId :> [effect |-> alert.effect,
                          routes |-> Distinct(entry.routes \o alert.affectedRoutes)])
             @@ disrupted

\* the body of "for (const stopId of alert.affectedStops)" for one stop
disruptStop(disrupted, alert, stopId, stopToComplex) ==
  LET complexId == complexOf(stopToComplex, stopId)
      entry == IF complexId \in DOMAIN disrupted THEN disrupted[complexId]
               ELSE [effect |-> alert.effect, routes |-> <<>>]
      effect == IF alert.effect = "No Service" THEN "No Service"
                ELSE IF alert.effect = "Significant Delays"
                        /\ entry.effect # "No Service"
                  THEN "Significant Delays"
                ELSE entry.effect
  IN  IF complexId = NoComplex THEN disrupted
      ELSE (complexId :> [effect |-> effect,
                          routes |-> Distinct(entry.routes \o alert.affectedRoutes)])
             @@ disrupted

\* "for (const stopId of alert.affectedStops)" over the first n stops
RECURSIVE disruptStops(_, _, _, _)
disruptStops(disrupted, alert, n, stopToComplex) ==
  IF n = 0 THEN disrupted
  ELSE disruptStop(disruptStops(disrupted, alert, n - 1, stopToComplex),
                   alert, alert.affectedStops[n], stopToComplex)

\* disruptedComplexes after "for (const alert of (alertData.alerts || []))"
\* over the first n alerts; an alert without stops is skipped
RECURSIVE disruptedComplexes(_, _, _)
disruptedComplexes(alerts, n, stopToComplex) ==
  IF n = 0 THEN <<>>
  ELSE disruptStops(disruptedComplexes(alerts, n - 1, stopToComplex),
                    alerts[n], Len(alerts[n].affectedStops), stopToComplex)

----------------------------------------------------------------------------
(* computePresence: the station loop, the sort and the aggregates *)

\* crimeData?.hourlyRisk?.[hour] ?? crimeData?.[getTimeWindow(hour) + 'Risk'] ?? 0
\* with crimeData = crimeModel?.stationRisk?.[id], in thousandths
crimeRiskOf(crime, id, hour) ==
  IF id \notin DOMAIN crime THEN 0
  ELSE IF hour \in DOMAIN crime[id].hourlyRisk THEN crime[id].hourlyRisk[hour]
  ELSE IF getTimeWindow(hour) \in DOMAIN crime[id].windowRisk
    THEN crime[id].windowRisk[getTimeWindow(hour)]
  ELSE 0

\* A plausible slip: the loop without its "if (!hourlyData) continue", a
\* station without data for the day being emitted with baseline 0.
loopStationsNoSkip(stations, dayOfWeek) == DOMAIN stations

\* the stations the loop does not skip: hourlyData = station.hourly[dayOfWeek]
\* is defined
loopStations(stations, dayOfWeek) ==
  {id \in DOMAIN stations : dayOfWeek \in DOMAIN stations[id].hourly}

\* Object.entries of an object with integer-like keys: ascending key order
RECURSIVE entriesOrder(_)
entriesOrder(ids) ==
  IF ids = {} THEN <<>>
  ELSE LET first == CHOOSE x \in ids : \A y \in ids : x <= y
       IN  <<first>> \o entriesOrder(ids \ {first})

\* what one loop iteration reads for station id
loopInput(id, station, dayOfWeek, hour, weather, trains, disrupted, crime) ==
  [hour |-> hour,
   baseline |-> IF dayOfWeek \in DOMAIN station.hourly
                  THEN station.hourly[dayOfWeek][hour] ELSE 0,
   stddev |-> IF dayOfWeek \in DOMAIN station.stddev
                THEN station.stddev[dayOfWeek][hour] ELSE 0,
   trainCount |-> IF id \in DOMAIN trains THEN trains[id] ELSE 0,
   weather |-> weather,
   crimeRisk |-> crimeRiskOf(crime, id, hour),
   disruption |-> IF id \in DOMAIN disrupted THEN disrupted[id]
                  ELSE NoDisruption]

\* A plausible slip: the comparator a.ridership - b.ridership.
RECURSIVE sortByRidershipAscending(_)
sortByRidershipAscending(list) ==
  IF list = <<>> THEN <<>>
  ELSE LET front == sortByRidershipAscending(SubSeq(list, 1, Len(list) - 1))
           x == list[Len(list)]
           keep == Cardinality({i \in DOMAIN front :
                                  front[i].ridership <= x.ridership})
       IN  SubSeq(front, 1, keep) \o <<x>> \o SubSeq(front, keep + 1, Len(front))

\* stationList.sort((a, b) => b.ridership - a.ridership): a stable sort
RECURSIVE sortByRidership(_)
sortByRidership(list) ==
  IF list = <<>> THEN <<>>
  ELSE LET front == sortByRidership(SubSeq(list, 1, Len(list) - 1))
           x == list[Len(list)]
           keep == Cardinality({i \in DOMAIN front :
                                  front[i].ridership >= x.ridership})
       IN  SubSeq(front, 1, keep) \o <<x>> \o SubSeq(front, keep + 1, Len(front))

\* A plausible slip: totalPresence += baseline.
RECURSIVE totalPresenceOfBaselines(_)
totalPresenceOfBaselines(list) ==
  IF list = <<>> THEN 0
  ELSE totalPresenceOfBaselines(SubSeq(list, 1, Len(list) - 1))
         + list[Len(list)].baseline

\* totalPresence after the loop: totalPresence += ridership per record
RECURSIVE totalPresence(_)
totalPresence(list) ==
  IF list = <<>> THEN 0
  ELSE totalPresence(SubSeq(list, 1, Len(list) - 1)) + list[Len(list)].ridership

\* stationList.filter(s => s.safetyLevel === tier).length
tierCount(list, tier) ==
  Cardinality({i \in DOMAIN list : list[i].safetyLevel = tier})

\* computePresence from "const stationList = []" to its return value.
\* stations is ridershipModel.stations, which loadRidershipModel always
\* leaves an object, so the early return of the first lines is not taken.
presenceResponse(stations, crime, dayOfWeek, hour, weather, trains, disrupted) ==
  LET order == entriesOrder(loopStations(stations, dayOfWeek))
      stationList ==
        [i \in DOMAIN order |->
           [id |-> order[i]] @@
           stationRecord(loopInput(order[i], stations[order[i]], dayOfWeek,
                                   hour, weather, trains, disrupted, crime))]
      avoidCount == tierCount(stationList, "avoid")
      cautionCount == tierCount(stationList, "caution")
  IN  [hour |-> hour,
       dayOfWeek |-> dayOfWeek,
       totalPresence |-> totalPresence(stationList),
       anomalyCount |-> Cardinality({i \in DOMAIN stationList :
                                       stationList[i].isAnomaly}),
       isNightMode |-> isNightHour(hour),
       weather |-> weather,
       trainComplexCount |-> Cardinality(DOMAIN trains),
       safetyStats |-> [avoid |-> avoidCount, caution |-> cautionCount,
                        safe |-> Len(stationList) - avoidCount - cautionCount],
       stations |-> sortByRidership(stationList)]

----------------------------------------------------------------------------
(* Inputs of the presence cycle *)

\* one day of a station's grid: one value for 06-22, one for the night
DayGrid(dayValue, nightValue) ==
  [h \in Hours |-> IF h >= 6 /\ h < 22 THEN dayValue ELSE nightValue]

\* a station's grid for the given days
WeekGrid(days, dayValue, nightValue) ==
  [d \in days |-> DayGrid(dayValue, nightValue)]

Weekdays == {"Mon", "Tue", "Wed", "Thu", "Fri"}

\* ridershipModel.stations as the builder writes it: every day for every
\* station; station 3 without a stddev grid (a model of an earlier build)
FullProfile ==
  (1 :> [hourly |-> WeekGrid(Days, 100, 10), stddev |-> WeekGrid(Days, 10, 0)])
  @@ (2 :> [hourly |-> WeekGrid(Days, 600, 60), stddev |-> WeekGrid(Days, 150, 5)])
  @@ (3 :> [hourly |-> WeekGrid(Days, 40, 4), stddev |-> WeekGrid({}, 0, 0)])

\* a model in which station 2 has weekday data only and station 3 no day
WeekdayProfile ==
  (1 :> [hourly |-> WeekGrid(Days, 100, 10), stddev |-> WeekGrid(Days, 10, 0)])
  @@ (2 :> [hourly |-> WeekGrid(Weekdays, 600, 20),
            stddev |-> WeekGrid(Weekdays, 150, 5)])
  @@ (3 :> [hourly |-> WeekGrid({}, 0, 0), stddev |-> WeekGrid({}, 0, 0)])

\* three stations of equal baseline
TiedProfile ==
  [id \in {1, 2, 3} |->
     [hourly |-> WeekGrid(Days, 100, 10), stddev |-> WeekGrid(Days, 0, 0)]]

\* ridershipModel = { stations: {}, metadata: {} }: the file is missing
EmptyProfile == [id \in {} |-> 0]

Profiles == {FullProfile, WeekdayProfile, TiedProfile, EmptyProfile}

Windows == {"morning", "afternoon", "evening", "latenight"}

\* crimeModel.stationRisk: station 1 with window risks, station 2 with
\* hourly risks, station 3 without crime data, and complex 9, which the
\* ridership model does not know
BuiltCrime ==
  (1 :> [hourlyRisk |-> [h \in {} |-> 0],
         windowRisk |-> [w \in Windows |->
                           CASE w = "morning" -> 200 [] w = "afternoon" -> 300
                             [] w = "evening" -> 750 [] w = "latenight" -> 600]])
  @@ (2 :> [hourlyRisk |-> [h \in Hours |-> 350],
            windowRisk |-> [w \in {"latenight"} |-> 1000]])
  @@ (9 :> [hourlyRisk |-> [h \in {} |-> 0],
            windowRisk |-> [w \in Windows |-> 900]])

\* crimeModel = { stationRisk: {}, metadata: {} }: the file is missing
EmptyCrime == [id \in {} |-> 0]

\* rows of the station download: stops of complexes 1, 2, 3 and 9, and a
\* stop without complex id
StationRows ==
  <<[stopId |-> "101", complexId |-> 1], [stopId |-> "205", complexId |-> 2],
    [stopId |-> "301", complexId |-> 3], [stopId |-> "901", complexId |-> 9],
    [stopId |-> "777", complexId |-> NoComplex]>>

\* a stop time update with a stop id and an arrival time
Arrival(base, dir, offset) ==
  [stopId |-> Stop(base, dir), hasStopId |-> TRUE,
   hasArrival |-> TRUE, arrival |-> offset]

FeedA ==
  [isNull |-> FALSE,
   entity |-> <<Arrival("101", "N", 0), Arrival("101", "S", 120),
                Arrival("101", "", -299), Arrival("205", "N", 10),
                Arrival("901", "S", 5), Arrival("777", "N", 0),
                Arrival("101", "N", 300), Arrival("301", "", -300),
                [Arrival("301", "N", 0) EXCEPT !.hasArrival = FALSE],
                [Arrival("301", "S", 0) EXCEPT !.hasStopId = FALSE]>>]

FeedB ==
  [isNull |-> FALSE,
   entity |-> <<Arrival("101", "N", 1), Arrival("101", "S", 2),
                Arrival("101", "N", 3), Arrival("301", "S", 4)>>]

\* what Promise.all of the fetchFeed calls can yield (two of the feeds)
FeedOutcomes ==
  {<<NullFeed, NullFeed>>, <<FeedA, NullFeed>>, <<FeedA, FeedB>>}

AlertsA ==
  [isNull |-> FALSE,
   entity |-> <<[effect |-> 3, stops |-> <<Stop("101", "")>>, routes |-> <<"1">>],
                [effect |-> 1, stops |-> <<Stop("205", "N"), Stop("901", "")>>,
                 routes |-> <<"N", "Q", "N">>],
                [effect |-> 4, stops |-> <<Stop("101", "S")>>, routes |-> <<"2">>],
                [effect |-> 2, stops |-> <<>>, routes |-> <<"7">>]>>]

AlertsB ==
  [isNull |-> FALSE,
   entity |-> <<[effect |-> 4, stops |-> <<Stop("301", "")>>, routes |-> <<"G">>],
                [effect |-> 1, stops |-> <<Stop("101", "N"), Stop("777", "")>>,
                 routes |-> <<"1">>]>>]

\* alerts as extractAlerts yields them: with one stop or several, of one
\* complex or two, without stops, and at a stop that has no complex
AlertValues ==
  {extractAlerts([isNull |-> FALSE, entity |-> <<e>>])[1] :
     e \in {[effect |-> 3, stops |-> <<Stop("101", "")>>, routes |-> <<"1">>],
            [effect |-> 1, stops |-> <<Stop("101", "N"), Stop("205", "N")>>,
             routes |-> <<"1", "N">>],
            [effect |-> 4, stops |-> <<Stop("101", "S"), Stop("205", "")>>,
             routes |-> <<"2", "1">>],
            [effect |-> 2, stops |-> <<Stop("205", "")>>, routes |-> <<"N", "Q">>],
            [effect |-> 1, stops |-> <<>>, routes |-> <<"7">>],
            [effect |-> 1, stops |-> <<Stop("777", "")>>, routes |-> <<"G">>]}}

\* what fetchFeed(ALERTS_URL) can yield
AlertFeedOutcomes == {NullFeed, AlertsA, AlertsB}

Rain == [isNull |-> FALSE, isSnow |-> FALSE, isRain |-> TRUE, isExtreme |-> FALSE]

Clear == [isNull |-> FALSE, isSnow |-> FALSE, isRain |-> FALSE, isExtreme |-> FALSE]

\* what the weather request can yield: NoWeather when it fails
WeatherOutcomes == {NoWeather, Rain, Clear}

\* the day and hour of new Date()
WallClocks ==
  {[day |-> "Mon", hour |-> 9], [day |-> "Sun", hour |-> 20],
   [day |-> "Sun", hour |-> 23]}

\* now - ts < ttl can hold only of a cache that holds data
Freshness(hasData) == IF hasData THEN BOOLEAN ELSE {FALSE}

NoLive ==
  [weatherFromCache |-> FALSE, fetchedWeather |-> NoWeather,
   weather |-> NoWeather, feeds |-> NoFeeds, trains |-> <<>>,
   alertsFeed |-> NullFeed, alertsFromCache |-> FALSE, alerts |-> <<>>,
   disrupted |-> <<>>]

NoResponse == [hour |-> -1]

----------------------------------------------------------------------------
(* The ridership model builder: aggregate and main *)

\* what parseInt and parseFloat yield for text that is not a number
NaN == -1

\* const ridership = parseInt(row.ridership) || 0
parseRidership(row) == IF row.ridership = NaN THEN 0 ELSE row.ridership

\* A plausible slip: only unparsable coordinates are skipped, not zero ones.
noCoordinatesUnparsable(row) == row.lat = NaN \/ row.lon = NaN

\* !lat || !lon, with lat = parseFloat(row.latitude) in thousandths of a
\* degree
noCoordinates(row) ==
  row.lat = NaN \/ row.lat = 0 \/ row.lon = NaN \/ row.lon = 0

\* new Array(24).fill(0) for every d of DAY_NAMES
ZeroGrid == [d \in Days |-> [h \in Hours |-> 0]]

\* stations, counts, sumSq and rawSums before the first row
NoBuckets ==
  [stations |-> [id \in {} |-> 0], counts |-> [id \in {} |-> 0],
   sumSq |-> [id \in {} |-> 0], rawSums |-> [id \in {} |-> 0]]

\* if (!stations[id]) { ... }: the first row of a station creates it
withStation(acc, row) ==
  IF row.id \in DOMAIN acc.stations THEN acc
  ELSE [stations |-> (row.id :> [lat |-> row.lat, lon |-> row.lon,
                                 hourly |-> ZeroGrid, stddev |-> ZeroGrid])
                       @@ acc.stations,
        counts |-> (row.id :> ZeroGrid) @@ acc.counts,
        sumSq |-> (row.id :> ZeroGrid) @@ acc.sumSq,
        rawSums |-> (row.id :> ZeroGrid) @@ acc.rawSums]

\* A plausible slip: the bucket keyed by the hour alone, so that an event
\* counts for that hour of every day.
addRowHourOnly(acc, row) ==
  IF row.id = NoComplex \/ noCoordinates(row) THEN acc
  ELSE LET made == withStation(acc, row)
           add(grid, x) ==
             [d \in Days |-> [grid[d] EXCEPT ![row.hour] = @ + x]]
       IN  [made EXCEPT
              !.rawSums[row.id] = add(@, parseRidership(row)),
              !.sumSq[row.id] = add(@, parseRidership(row) * parseRidership(row)),
              !.counts[row.id] = add(@, 1)]

\* the body of "for (const row of rows)"
addRow(acc, row) ==
  IF row.id = NoComplex \/ noCoordinates(row) THEN acc
  ELSE LET made == withStation(acc, row)
       IN  [made EXCEPT
              !.rawSums[row.id][row.day][row.hour] = @ + parseRidership(row),
              !.sumSq[row.id][row.day][row.hour] =
                 @ + parseRidership(row) * parseRidership(row),
              !.counts[row.id][row.day][row.hour] = @ + 1]

\* new Date(row.transit_timestamp) is an Invalid Date: dayName is undefined
\* and "rawSums[id][dayName][hour] += ridership" throws a TypeError, for a
\* row that was not skipped before
invalidTimestamp(row) ==
  row.id # NoComplex /\ ~noCoordinates(row) /\ row.day \notin Days

\* the accumulators after the first n rows
RECURSIVE addRows(_, _)
addRows(rows, n) ==
  IF n = 0 THEN NoBuckets ELSE addRow(addRows(rows, n - 1), rows[n])

\* Math.round(Math.sqrt(Math.max(0, variance))) with variance =
\* sumSq / c - mean * mean = v / c^2 for v = c * sumSq - sum^2: the k with
\* (2k - 1) * c <= 2 * sqrt(v) < (2k + 1) * c, searched upwards
RECURSIVE roundSqrt(_, _, _)
roundSqrt(v, c, k) ==
  IF v <= 0 \/ 4 * v < (2 * k + 1) * (2 * k + 1) * c * c THEN k
  ELSE roundSqrt(v, c, k + 1)

\* aggregate(rows): the stations after "Compute mean and standard deviation"
aggregate(rows) ==
  LET acc == addRows(rows, Len(rows))
      cell(id, day, h, filled, empty) ==
        IF acc.counts[id][day][h] > 0 THEN filled ELSE empty
  IN  [id \in DOMAIN acc.stations |->
         [acc.stations[id] EXCEPT
            !.hourly = [day \in Days |-> [h \in Hours |->
               cell(id, day, h,
                    MathRound(acc.rawSums[id][day][h], acc.counts[id][day][h]),
                    acc.stations[id].hourly[day][h])]],
            !.stddev = [day \in Days |-> [h \in Hours |->
               cell(id, day, h,
                    roundSqrt(acc.counts[id][day][h] * acc.sumSq[id][day][h]
                                - acc.rawSums[id][day][h] * acc.rawSums[id][day][h],
                              acc.counts[id][day][h], 0),
                    acc.stations[id].stddev[day][h])]]]]

\* ridership-model.json does not exist
NoFile == [written |-> FALSE]

\* main() of the ridership builder: what it leaves in ridership-model.json
\* and how the process exits.  source is what fetchAllData yields: the rows,
\* or ok = FALSE when a page request throws.  An exception of aggregate
\* reaches main().catch as well.
ridershipMain(source, file) ==
  IF ~source.ok THEN [file |-> file, exit |-> "failure"]
  ELSE IF Len(source.rows) = 0 THEN [file |-> file, exit |-> "failure"]
  ELSE IF \E i \in DOMAIN source.rows : invalidTimestamp(source.rows[i])
    THEN [file |-> file, exit |-> "failure"]
  ELSE LET stations == aggregate(source.rows)
       IN  [file |-> [written |-> TRUE, stations |-> stations,
                      stationCount |-> Cardinality(DOMAIN stations)],
            exit |-> "success"]

\* events of the ridership dataset
Event(id, day, hour, ridership, lat, lon) ==
  [id |-> id, day |-> day, hour |-> hour, ridership |-> ridership,
   lat |-> lat, lon |-> lon]

RowValues ==
  {Event(1, "Mon", 9, 10, 40712, -74006), Event(1, "Mon", 9, 13, 40712, -74006),
   Event(1, "Mon", 9, 30, 40712, -74006), Event(1, "Tue", 0, 7, 40712, -74006),
   Event(1, "Mon", 9, NaN, 40712, -74006), Event(2, "Mon", 9, 10, 40750, -73990),
   Event(2, "Sun", 23, 13, 40750, NaN), Event(3, "Mon", 9, 10, 0, -73950),
   Event(NoComplex, "Mon", 9, 10, 40712, -74006),
   Event(1, "Invalid", NaN, 10, 40712, -74006)}

\* a request that threw: no rows
NoSource == [ok |-> FALSE, rows |-> <<>>]

\* what fetchAllData can yield
RidershipSources ==
  {NoSource} \cup
  {[ok |-> TRUE, rows |-> rows] :
     rows \in UNION {[1 .. n -> RowValues] : n \in 0 .. MaxRows}}

----------------------------------------------------------------------------
(* The crime model builder: computeStationRisk and main *)

\* getTimeWindow(hourStr) of the builder: null ("none") when the hour of
\* cmplnt_fr_tm does not parse
crimeTimeWindow(hour) ==
  IF hour = NaN THEN "none"
  ELSE IF hour >= 6 /\ hour < 12 THEN "morning"
  ELSE IF hour >= 12 /\ hour < 18 THEN "afternoon"
  ELSE IF hour >= 18 /\ hour < 22 THEN "evening"
  ELSE "latenight"

\* The doubles of the weighted sums.  A double is carried as nom, its value
\* in hundred-thousandths (to the nearest), low, its last eight bits in
\* units of 2^-54, and err, what the additions that made it won or lost
\* against the exact sum of the weights, in units of 2^-54.
ZeroSum == [nom |-> 0, low |-> 0, err |-> 0]

\* the spacing of the doubles around a value, in units of 2^-54: 2^-54 in
\* [0.25, 0.5), doubling with each power of two
ulp(nom) ==
  IF nom < 50000 THEN 1
  ELSE IF nom < 100000 THEN 2
  ELSE IF nom < 200000 THEN 4
  ELSE IF nom < 400000 THEN 8
  ELSE 16

\* what rounding to the nearest double, ties to the even one, adds to an
\* exact sum with the given last bits
roundToDouble(nom, low) ==
  LET u == ulp(nom)
      r == low % u
  IN  IF 2 * r < u THEN 0 - r
      ELSE IF 2 * r > u THEN u - r
      ELSE IF ((low - r) \div u) % 2 = 0 THEN 0 - r
      ELSE u - r

\* a + b (and a += b) on doubles
plus(a, b) ==
  LET nom == a.nom + b.nom
      low == (a.low + b.low) % 256
      d == roundToDouble(nom, low)
  IN  [nom |-> nom, low |-> (low + d) % 256, err |-> a.err + b.err + d]

\* a > b on two doubles of the model
greater(a, b) == a.nom > b.nom \/ (a.nom = b.nom /\ a.err > b.err)

\* recencyWeight(crimeDateStr) = Math.exp(-0.693 * daysAgo / 30), and 0.5
\* without a date, for the ages the model uses: 1, 0.5000735956957677 and
\* 0.25007360111209415
recencyWeight(daysAgo) ==
  CASE daysAgo = NaN -> [nom |-> 50000, low |-> 0, err |-> 0]
    [] daysAgo = 0 -> [nom |-> 100000, low |-> 0, err |-> 0]
    [] daysAgo = 30 -> [nom |-> 50007, low |-> 14, err |-> 0]
    [] daysAgo = 60 -> [nom |-> 25007, low |-> 37, err |-> 0]

\* the bounding box test and haversineMeters(...) <= RADIUS_METERS for
\* coordinates in thousandths of a degree: at the latitude of the city one
\* thousandth is 111 m north-south and 84 m east-west
withinRadius(station, crime) ==
  LET dLat == Abs(station.lat - crime.lat)
      dLon == Abs(station.lon - crime.lon)
  IN  /\ ~(dLat > 4 \/ dLon > 4)
      /\ 111 * 111 * dLat * dLat + 84 * 84 * dLon * dLon <= 400 * 400

\* stationRisk[id] before the first crime
NoRisk ==
  [raw |-> [w \in Windows |-> ZeroSum], total |-> 0,
   totalWeighted |-> ZeroSum, topCrimeType |-> "null", crimeTypes |-> <<>>,
   windowRisk |-> [w \in {} |-> 0]]

\* const type = crime.ofns_desc || 'OTHER'
crimeType(crime) == IF crime.type = "" THEN "OTHER" ELSE crime.type

\* crimeTypes[type] = (crimeTypes[type] || 0) + weight, crimeTypes being
\* the entries of the object in insertion order
addType(types, type, weight) ==
  IF \E i \in DOMAIN types : types[i].type = type
    THEN [i \in DOMAIN types |->
            IF types[i].type = type
              THEN [types[i] EXCEPT !.count = plus(@, weight)]
              ELSE types[i]]
    ELSE Append(types, [type |-> type, count |-> weight])

\* maxType and maxCount after the first n entries of crimeTypes
RECURSIVE maxType(_, _)
maxType(types, n) ==
  IF n = 0 THEN [type |-> "null", count |-> ZeroSum]
  ELSE LET before == maxType(types, n - 1)
       IN  IF greater(types[n].count, before.count) THEN types[n] ELSE before

\* delete object[field]
without(object, field) == [f \in DOMAIN object \ {field} |-> object[f]]

\* A plausible slip: an incident counted for one station only, the first
\* one that is near enough.
addCrimeDeduplicated(stationRisk, crime, stations) ==
  LET window == crimeTimeWindow(crime.hour)
      weight == recencyWeight(crime.daysAgo)
      near == {id \in DOMAIN stationRisk : withinRadius(stations[id], crime)}
  IN  IF noCoordinates(crime) \/ window = "none" \/ near = {} THEN stationRisk
      ELSE LET first == CHOOSE id \in near : \A other \in near : id <= other
           IN  [stationRisk EXCEPT
                  ![first].raw[window] = plus(@, weight),
                  ![first].total = @ + 1,
                  ![first].totalWeighted = plus(@, weight),
                  ![first].crimeTypes = addType(@, crimeType(crime), weight)]

\* the body of "for (const crime of crimes)"
addCrime(stationRisk, crime, stations) ==
  LET window == crimeTimeWindow(crime.hour)
      weight == recencyWeight(crime.daysAgo)
  IN  IF noCoordinates(crime) \/ window = "none" THEN stationRisk
      ELSE [id \in DOMAIN stationRisk |->
              IF withinRadius(stations[id], crime)
                THEN [stationRisk[id] EXCEPT
                        !.raw[window] = plus(@, weight),
                        !.total = @ + 1,
                        !.totalWeighted = plus(@, weight),
                        !.crimeTypes = addType(@, crimeType(crime), weight)]
                ELSE stationRisk[id]]

\* stationRisk after the first n crimes
RECURSIVE addCrimes(_, _, _)
addCrimes(crimes, n, stations) ==
  IF n = 0 THEN [id \in DOMAIN stations |-> NoRisk]
  ELSE addCrime(addCrimes(crimes, n - 1, stations), crimes[n], stations)

\* let maxVal = 0; for (const id in stationRisk) if (... > maxVal) maxVal = ...
RECURSIVE maxVal(_, _, _)
maxVal(stationRisk, ids, window) ==
  IF ids = {} THEN ZeroSum
  ELSE LET id == CHOOSE x \in ids : TRUE
           rest == maxVal(stationRisk, ids \ {id}, window)
       IN  IF greater(stationRisk[id].raw[window], rest)
             THEN stationRisk[id].raw[window] ELSE rest

\* computeStationRisk(stations, crimes) with its normalization:
\* windowRisk[w] is the field <w>Risk, in thousandths, which is assigned
\* only under "if (maxVal > 0)".  riskTier and overallRisk are not
\* carried.
computeStationRisk(stations, crimes) ==
  LET summed == addCrimes(crimes, Len(crimes), stations)
      top(w) == maxVal(summed, DOMAIN summed, w)
  IN  [id \in DOMAIN summed |->
         [without(summed[id], "crimeTypes") EXCEPT
            !.topCrimeType = maxType(summed[id].crimeTypes,
                                     Len(summed[id].crimeTypes)).type,
            !.windowRisk = [w \in {x \in Windows : greater(top(x), ZeroSum)} |->
                              MathRound(1000 * summed[id].raw[w].nom,
                                        top(w).nom)]]]

\* A plausible slip: main without its "if (crimes.length === 0)" guard.
crimeMainNoGuard(modelFile, source, file) ==
  IF ~modelFile.written \/ ~source.ok
    THEN [file |-> file, exit |-> "failure", computed |-> FALSE]
  ELSE [file |-> [written |-> TRUE,
                  stationRisk |-> computeStationRisk(modelFile.stations,
                                                     source.rows),
                  totalCrimes |-> Len(source.rows)],
        exit |-> "success", computed |-> TRUE]

\* main() of the crime builder: what it leaves in crime-model.json, how
\* the process exits and whether computeStationRisk ran.  modelFile is
\* ridership-model.json (readFileSync throws without it), source what
\* fetchCrimes yields: the rows, or ok = FALSE when a page request throws.
crimeMain(modelFile, source, file) ==
  IF ~modelFile.written \/ ~source.ok
    THEN [file |-> file, exit |-> "failure", computed |-> FALSE]
  ELSE IF Len(source.rows) = 0
    THEN [file |-> file, exit |-> "failure", computed |-> FALSE]
  ELSE [file |-> [written |-> TRUE,
                  stationRisk |-> computeStationRisk(modelFile.stations,
                                                     source.rows),
                  totalCrimes |-> Len(source.rows)],
        exit |-> "success", computed |-> TRUE]

\* the stations of the ridership model the crime builder reads: stations 1
\* and 2 are 222 m apart, station 3 is far from both
BuiltStations ==
  (1 :> [lat |-> 40712, lon |-> -74006, hourly |-> ZeroGrid, stddev |-> ZeroGrid])
  @@ (2 :> [lat |-> 40714, lon |-> -74006, hourly |-> ZeroGrid, stddev |-> ZeroGrid])
  @@ (3 :> [lat |-> 40750, lon |-> -73990, hourly |-> ZeroGrid, stddev |-> ZeroGrid])

BuiltModelFile ==
  [written |-> TRUE, stations |-> BuiltStations, stationCount |-> 3]

\* a crime-model.json of an earlier build
EarlierCrimeFile ==
  [written |-> TRUE,
   stationRisk |-> [id \in {1, 2, 3} |->
                      [without(NoRisk, "crimeTypes") EXCEPT
                                     !.raw["evening"] = recencyWeight(0),
                                     !.topCrimeType = "ROBBERY",
                                     !.total = 1,
                                     !.totalWeighted = recencyWeight(0),
                                     !.windowRisk = [w \in {"evening"} |-> 1000]]],
   totalCrimes |-> 3]

\* rows of the complaint dataset
Complaint(lat, lon, hour, daysAgo, type) ==
  [lat |-> lat, lon |-> lon, hour |-> hour, daysAgo |-> daysAgo,
   type |-> type]

CrimeValues ==
  {Complaint(40712, -74006, 8, 0, "ROBBERY"),
   Complaint(40712, -74006, 8, 60, "FELONY ASSAULT"),
   Complaint(40713, -74006, 23, 30, "ROBBERY"),
   Complaint(40714, -74006, 14, 0, ""),
   Complaint(40750, -73990, 19, 60, "ROBBERY"),
   Complaint(40750, -73990, 14, NaN, "FELONY ASSAULT"),
   Complaint(0, -74006, 8, 0, "ROBBERY"),
   Complaint(40712, -74006, NaN, 0, "ROBBERY"),
   Complaint(41000, -73000, 13, 0, "ROBBERY")}

\* what fetchCrimes can yield
CrimeSources ==
  {NoSource} \cup
  {[ok |-> TRUE, rows |-> rows] :
     rows \in UNION {[1 .. n -> CrimeValues] : n \in 0 .. MaxCrimes}}

----------------------------------------------------------------------------
(* The cache utility: cached('presence', 30000, computePresence) *)

\* ttlMs of the /api/presence handler in ticks: 30000 ms
TTL == 3

\* !cache[key]
NoEntry == [data |-> 0, ts |-> NaN]

\* A plausible slip: the age in milliseconds compared with ttlSec, the TTL
\* in seconds, which no reading of the clock in ticks is below.
isFreshTtlSeconds(entry, now) == entry # NoEntry /\ now - entry.ts < 0

\* cache[key] && now - cache[key].ts < ttlMs
isFresh(entry, now) == entry # NoEntry /\ now - entry.ts < TTL

\* res.json(cache[key].data) on a hit
hit(entry, now) ==
  [arrived |-> now, kind |-> "hit", data |-> entry.data, ts |-> entry.ts]

\* A plausible slip: the response of a successful computation taken from
\* the entry that was stored before, when there is one.
resolvedServingStored(entry, request) ==
  [cache |-> [data |-> request.id, ts |-> request.now],
   response |-> IF entry = NoEntry
                  THEN [arrived |-> request.now, kind |-> "fresh",
                        data |-> request.id, ts |-> request.now]
                  ELSE [arrived |-> request.now, kind |-> "fresh",
                        data |-> entry.data, ts |-> entry.ts]]

\* const data = await fetchFn(); cache[key] = { data, ts: now };
\* res.json(data): now is the reading taken when the request arrived, and
\* the data is named after the request that computed it
resolved(entry, request) ==
  [cache |-> [data |-> request.id, ts |-> request.now],
   response |-> [arrived |-> request.now, kind |-> "fresh",
                 data |-> request.id, ts |-> request.now]]

\* the catch branch: the stored data whatever its age, or status 500
rejected(entry, request) ==
  IF entry # NoEntry
    THEN [arrived |-> request.now, kind |-> "stale", data |-> entry.data,
          ts |-> entry.ts]
    ELSE [arrived |-> request.now, kind |-> "error", data |-> 0, ts |-> NaN]

----------------------------------------------------------------------------
(* The classification alone: computeSafetyLevel applied to drawn arguments *)

ClassifyIdle ==
  cRidership = 0 /\ cCrimeRisk = 0 /\ cHour = 0 /\ cLevel = "none"

EscalateIdle ==
  eDisruption = NoDisruption /\ eHour = 0 /\ eTrace = <<>>

StationIdle ==
  sIn = NoInput /\ sRec = NoRecord

PresenceIdle ==
  /\ ridershipModel = EmptyProfile /\ crimeModel = EmptyCrime
  /\ gtfsStopToComplex = loadStations(<<>>) /\ apiKey = FALSE
  /\ wallClock = [day |-> "Mon", hour |-> 0]
  /\ weatherCache = NoWeather /\ feedCache = NoFeeds
  /\ alertsCache = NoAlertData /\ live = NoLive
  /\ response = NoResponse /\ cycles = 0

RidershipBuildIdle ==
  ridershipSource = NoSource /\ ridershipFile = NoFile
    /\ ridershipExit = "running"

CrimeBuildIdle ==
  /\ crimeSource = NoSource /\ crimeFile = NoFile /\ crimeFileBefore = NoFile
  /\ crimeExit = "running" /\ riskComputed = FALSE

BuilderIdle == RidershipBuildIdle /\ CrimeBuildIdle

CacheIdle ==
  /\ clock = 0 /\ presenceCache = NoEntry /\ pending = {} /\ served = <<>>
  /\ invoked = <<>> /\ overlapped = FALSE /\ nextId = 1

DisruptionIdle ==
  dAlerts = <<>> /\ dComplexes = <<>> /\ dDone = FALSE

StationsIdle ==
  /\ stationPromise = "null" /\ loadStarts = 0 /\ handed = <<>>
  /\ stationDownload = NoSource

ClientIdle ==
  /\ clientLevel = "none" /\ bootPc = "boot"
  /\ exploreMode = "uninitialized" /\ presenceData = 0
  /\ inflight = {} /\ fetchCount = 0 /\ hud = InitialHud
  /\ mapSource = Initial /\ status = "" /\ clientModels = "null"

PulseIdle ==
  /\ stationData = <<>> /\ pulseRings = <<>> /\ previousTrainStops = {}
  /\ lastTrains = <<>> /\ updates = 0

InitClassify ==
  /\ cRidership \in 0 .. MaxRidership
  /\ cCrimeRisk \in RiskValues
  /\ cHour \in Hours
  /\ cLevel = "none"
  /\ EscalateIdle
  /\ StationIdle
  /\ PresenceIdle
  /\ BuilderIdle
  /\ CacheIdle
  /\ DisruptionIdle
  /\ StationsIdle
  /\ ClientIdle
  /\ PulseIdle

Classify ==
  /\ cLevel = "none"
  /\ cLevel' = computeSafetyLevel(cRidership, cCrimeRisk, cHour)
  /\ UNCHANGED <<cRidership, cCrimeRisk, cHour,
                 eDisruption, eHour, eTrace, sIn, sRec>>
  /\ UNCHANGED presenceVars
  /\ UNCHANGED builderVars
  /\ UNCHANGED cacheVars
  /\ UNCHANGED disruptionVars
  /\ UNCHANGED stationVars
  /\ UNCHANGED clientVars
  /\ UNCHANGED pulseVars

NextClassify == Classify

SpecClassify == InitClassify /\ [][NextClassify]_vars

----------------------------------------------------------------------------
(* The escalation step applied repeatedly to a classified tier *)

InitEscalate ==
  /\ ClassifyIdle
  /\ StationIdle
  /\ PresenceIdle
  /\ BuilderIdle
  /\ CacheIdle
  /\ eDisruption \in Disruptions
  /\ eHour \in Hours
  /\ \E r \in {0, 10, 20, 30}, c \in {0, 400, 900} :
       eTrace = <<computeSafetyLevel(r, c, eHour)>>
  /\ DisruptionIdle
  /\ StationsIdle
  /\ ClientIdle
  /\ PulseIdle

ApplyEscalation ==
  /\ Len(eTrace) <= MaxApply
  /\ eTrace' = Append(eTrace, escalate(eTrace[Len(eTrace)], eDisruption,
                                       isNightHour(eHour)))
  /\ UNCHANGED <<cRidership, cCrimeRisk, cHour, cLevel,
                 eDisruption, eHour, sIn, sRec>>
  /\ UNCHANGED presenceVars
  /\ UNCHANGED builderVars
  /\ UNCHANGED cacheVars
  /\ UNCHANGED disruptionVars
  /\ UNCHANGED stationVars
  /\ UNCHANGED clientVars
  /\ UNCHANGED pulseVars

NextEscalate == ApplyEscalation

SpecEscalate == InitEscalate /\ [][NextEscalate]_vars

----------------------------------------------------------------------------
(* One station of one computePresence cycle *)

InitStation ==
  /\ ClassifyIdle
  /\ EscalateIdle
  /\ PresenceIdle
  /\ BuilderIdle
  /\ CacheIdle
  /\ sIn \in StationInputs
  /\ sRec = NoRecord
  /\ DisruptionIdle
  /\ StationsIdle
  /\ ClientIdle
  /\ PulseIdle

ComputeStation ==
  /\ sRec = NoRecord
  /\ sRec' = stationRecord(sIn)
  /\ UNCHANGED <<cRidership, cCrimeRisk, cHour, cLevel,
                 eDisruption, eHour, eTrace, sIn>>
  /\ UNCHANGED presenceVars
  /\ UNCHANGED builderVars
  /\ UNCHANGED cacheVars
  /\ UNCHANGED disruptionVars
  /\ UNCHANGED stationVars
  /\ UNCHANGED clientVars
  /\ UNCHANGED pulseVars

NextStation == ComputeStation

SpecStation == InitStation /\ [][NextStation]_vars

----------------------------------------------------------------------------
(* The presence cycle: /api/presence and /api/alerts of a running server *)

InitPresence ==
  /\ ClassifyIdle
  /\ EscalateIdle
  /\ StationIdle
  /\ BuilderIdle
  /\ CacheIdle
  /\ ridershipModel \in Profiles
  /\ crimeModel = BuiltCrime
  /\ gtfsStopToComplex = loadStations(StationRows)
  /\ apiKey \in BOOLEAN
  /\ wallClock \in WallClocks
  /\ weatherCache = NoWeather
  /\ feedCache = NoFeeds
  /\ alertsCache = NoAlertData
  /\ live = NoLive
  /\ response = NoResponse
  /\ cycles = 0
  /\ DisruptionIdle
  /\ StationsIdle
  /\ ClientIdle
  /\ PulseIdle

\* computePresence(), from fetchWeather() to the return value
ComputePresence ==
  /\ cycles < MaxCycles
  /\ \E weatherFresh \in Freshness(~weatherCache.isNull),
        feedFresh \in Freshness(feedCache # NoFeeds),
        alertsFresh \in Freshness(alertsCache.cached) :
       \E fetchedWeather \in
            IF weatherFresh \/ ~apiKey THEN {NoWeather} ELSE WeatherOutcomes,
          fetchedFeeds \in
            IF feedFresh THEN {<<NullFeed, NullFeed>>} ELSE FeedOutcomes,
          fetchedAlerts \in
            IF alertsFresh THEN {NullFeed} ELSE AlertFeedOutcomes :
         LET w == fetchWeather(weatherCache, weatherFresh, apiKey, fetchedWeather)
             f == fetchAllFeeds(feedCache, feedFresh, fetchedFeeds)
             trains == trainsByComplex(f.feeds, gtfsStopToComplex)
             alerts == IF alertsCache.cached /\ alertsFresh
                         THEN alertsCache.alerts
                         ELSE computeAlerts(fetchedAlerts)
             disrupted == disruptedComplexes(alerts, Len(alerts),
                                             gtfsStopToComplex)
         IN  /\ weatherCache' = w.cache
             /\ feedCache' = f.cache
             /\ live' = [weatherFromCache |-> weatherFresh,
                         fetchedWeather |-> fetchedWeather,
                         weather |-> w.weather, feeds |-> f.feeds,
                         trains |-> trains, alertsFeed |-> fetchedAlerts,
                         alertsFromCache |-> alertsFresh, alerts |-> alerts,
                         disrupted |-> disrupted]
             /\ response' = presenceResponse(ridershipModel, crimeModel,
                                             wallClock.day, wallClock.hour,
                                             w.weather, trains, disrupted)
  /\ cycles' = cycles + 1
  /\ UNCHANGED <<ridershipModel, crimeModel, gtfsStopToComplex, apiKey,
                 wallClock, alertsCache>>
  /\ UNCHANGED harnessVars
  /\ UNCHANGED builderVars
  /\ UNCHANGED cacheVars
  /\ UNCHANGED disruptionVars
  /\ UNCHANGED stationVars
  /\ UNCHANGED clientVars
  /\ UNCHANGED pulseVars

\* the /api/alerts handler, cached('alerts', 60000, computeAlerts): a
\* request that finds no fresh entry stores what computeAlerts returns
AlertsRoute ==
  /\ cycles < MaxCycles
  /\ \E fresh \in Freshness(alertsCache.cached),
        fetchedAlerts \in AlertFeedOutcomes :
       alertsCache' = IF fresh THEN alertsCache
                      ELSE [cached |-> TRUE, alerts |-> computeAlerts(fetchedAlerts)]
  /\ UNCHANGED <<ridershipModel, crimeModel, gtfsStopToComplex, apiKey,
                 wallClock, weatherCache, feedCache, live, response, cycles>>
  /\ UNCHANGED harnessVars
  /\ UNCHANGED builderVars
  /\ UNCHANGED cacheVars
  /\ UNCHANGED disruptionVars
  /\ UNCHANGED stationVars
  /\ UNCHANGED clientVars
  /\ UNCHANGED pulseVars

NextPresence == ComputePresence \/ AlertsRoute

SpecPresence == InitPresence /\ [][NextPresence]_vars

----------------------------------------------------------------------------
(* The ridership model builder run once *)

InitRidershipBuild ==
  /\ ClassifyIdle
  /\ EscalateIdle
  /\ StationIdle
  /\ PresenceIdle
  /\ CacheIdle
  /\ ridershipSource \in RidershipSources
  /\ ridershipFile = NoFile
  /\ ridershipExit = "running"
  /\ CrimeBuildIdle
  /\ DisruptionIdle
  /\ StationsIdle
  /\ ClientIdle
  /\ PulseIdle

\* main() of the ridership builder, with main().catch
RidershipMain ==
  /\ ridershipExit = "running"
  /\ LET run == ridershipMain(ridershipSource, ridershipFile)
     IN  /\ ridershipFile' = run.file
         /\ ridershipExit' = run.exit
  /\ UNCHANGED <<ridershipSource, crimeSource, crimeFile, crimeFileBefore,
                 crimeExit, riskComputed>>
  /\ UNCHANGED <<harnessVars, presenceVars>>
  /\ UNCHANGED cacheVars
  /\ UNCHANGED disruptionVars
  /\ UNCHANGED stationVars
  /\ UNCHANGED clientVars
  /\ UNCHANGED pulseVars

NextRidershipBuild == RidershipMain

SpecRidershipBuild == InitRidershipBuild /\ [][NextRidershipBuild]_vars

----------------------------------------------------------------------------
(* The crime model builder run once *)

InitCrimeBuild ==
  /\ ClassifyIdle
  /\ EscalateIdle
  /\ StationIdle
  /\ PresenceIdle
  /\ CacheIdle
  /\ ridershipSource = NoSource
  /\ ridershipFile \in {NoFile, BuiltModelFile}
  /\ ridershipExit = "running"
  /\ crimeSource \in CrimeSources
  /\ crimeFile \in {NoFile, EarlierCrimeFile}
  /\ crimeFileBefore = crimeFile
  /\ crimeExit = "running"
  /\ riskComputed = FALSE
  /\ DisruptionIdle
  /\ StationsIdle
  /\ ClientIdle
  /\ PulseIdle

\* main() of the crime builder, with main().catch
CrimeMain ==
  /\ crimeExit = "running"
  /\ LET run == crimeMain(ridershipFile, crimeSource, crimeFile)
     IN  /\ crimeFile' = run.file
         /\ crimeExit' = run.exit
         /\ riskComputed' = run.computed
  /\ UNCHANGED <<ridershipSource, ridershipFile, ridershipExit, crimeSource,
                 crimeFileBefore>>
  /\ UNCHANGED <<harnessVars, presenceVars>>
  /\ UNCHANGED cacheVars
  /\ UNCHANGED disruptionVars
  /\ UNCHANGED stationVars
  /\ UNCHANGED clientVars
  /\ UNCHANGED pulseVars

NextCrimeBuild == CrimeMain

SpecCrimeBuild == InitCrimeBuild /\ [][NextCrimeBuild]_vars

----------------------------------------------------------------------------
(* Both builders run as the README has them run: build-model, then
   build-crime on the stations of the ridership model it finds *)

\* events and complaints with and without usable coordinates
BatchEvents ==
  {Event(1, "Mon", 9, 10, 40712, -74006), Event(2, "Mon", 9, 10, 40750, -73990),
   Event(2, "Sun", 23, 13, 40750, NaN), Event(3, "Mon", 9, 10, 0, -73950),
   Event(1, "Mon", 9, 30, NaN, 0)}

BatchCrimes ==
  {Complaint(40712, -74006, 8, 0, "ROBBERY"),
   Complaint(40750, -73990, 19, 60, "ROBBERY"),
   Complaint(0, -74006, 8, 0, "ROBBERY"),
   Complaint(40712, NaN, 8, 0, "FELONY ASSAULT")}

InitBuild ==
  /\ ClassifyIdle
  /\ EscalateIdle
  /\ StationIdle
  /\ PresenceIdle
  /\ CacheIdle
  /\ ridershipSource \in
       {[ok |-> TRUE, rows |-> rows] :
          rows \in UNION {[1 .. n -> BatchEvents] : n \in 1 .. MaxBatch}}
  /\ ridershipFile = NoFile
  /\ ridershipExit = "running"
  /\ crimeSource \in
       {[ok |-> TRUE, rows |-> rows] :
          rows \in UNION {[1 .. n -> BatchCrimes] : n \in 1 .. MaxBatch}}
  /\ crimeFile = NoFile
  /\ crimeFileBefore = NoFile
  /\ crimeExit = "running"
  /\ riskComputed = FALSE
  /\ DisruptionIdle
  /\ StationsIdle
  /\ ClientIdle
  /\ PulseIdle

NextBuild ==
  \/ RidershipMain
  \/ ridershipExit # "running" /\ CrimeMain

SpecBuild == InitBuild /\ [][NextBuild]_vars

----------------------------------------------------------------------------
(* The /api/presence handler under requests that may overlap *)

InitCache ==
  /\ ClassifyIdle
  /\ EscalateIdle
  /\ StationIdle
  /\ PresenceIdle
  /\ BuilderIdle
  /\ clock = 0
  /\ presenceCache = NoEntry
  /\ pending = {}
  /\ served = <<>>
  /\ invoked = <<>>
  /\ overlapped = FALSE
  /\ nextId = 1
  /\ DisruptionIdle
  /\ StationsIdle
  /\ ClientIdle
  /\ PulseIdle

\* time passes
Tick ==
  /\ clock < MaxClock
  /\ clock' = clock + 1
  /\ UNCHANGED <<presenceCache, pending, served, invoked, overlapped, nextId>>
  /\ UNCHANGED <<harnessVars, presenceVars, builderVars>>
  /\ UNCHANGED disruptionVars
  /\ UNCHANGED stationVars
  /\ UNCHANGED clientVars
  /\ UNCHANGED pulseVars

\* a request arrives: the handler up to its first await
Request ==
  /\ nextId <= MaxRequests
  /\ nextId' = nextId + 1
  /\ overlapped' = (overlapped \/ pending # {})
  /\ IF isFresh(presenceCache, clock)
       THEN /\ served' = Append(served, hit(presenceCache, clock))
            /\ UNCHANGED <<pending, invoked>>
       ELSE /\ pending' = pending \cup {[id |-> nextId, now |-> clock]}
            /\ invoked' = Append(invoked, clock)
            /\ UNCHANGED served
  /\ UNCHANGED <<clock, presenceCache>>
  /\ UNCHANGED <<harnessVars, presenceVars, builderVars>>
  /\ UNCHANGED disruptionVars
  /\ UNCHANGED stationVars
  /\ UNCHANGED clientVars
  /\ UNCHANGED pulseVars

\* fetchFn() of a pending request resolves
Resolve ==
  /\ \E request \in pending :
       /\ presenceCache' = resolved(presenceCache, request).cache
       /\ served' = Append(served, resolved(presenceCache, request).response)
       /\ pending' = pending \ {request}
  /\ UNCHANGED <<clock, invoked, overlapped, nextId>>
  /\ UNCHANGED <<harnessVars, presenceVars, builderVars>>
  /\ UNCHANGED disruptionVars
  /\ UNCHANGED stationVars
  /\ UNCHANGED clientVars
  /\ UNCHANGED pulseVars

\* fetchFn() of a pending request rejects
Reject ==
  /\ \E request \in pending :
       /\ served' = Append(served, rejected(presenceCache, request))
       /\ pending' = pending \ {request}
  /\ UNCHANGED <<clock, presenceCache, invoked, overlapped, nextId>>
  /\ UNCHANGED <<harnessVars, presenceVars, builderVars>>
  /\ UNCHANGED disruptionVars
  /\ UNCHANGED stationVars
  /\ UNCHANGED clientVars
  /\ UNCHANGED pulseVars

NextCache == Tick \/ Request \/ Resolve \/ Reject

SpecCache == InitCache /\ [][NextCache]_vars

----------------------------------------------------------------------------
(* The disruption map alone: the loop over alertData.alerts applied to
   alerts in every order *)

InitDisruption ==
  /\ ClassifyIdle
  /\ EscalateIdle
  /\ StationIdle
  /\ ridershipModel = EmptyProfile /\ crimeModel = EmptyCrime
  /\ gtfsStopToComplex = loadStations(StationRows) /\ apiKey = FALSE
  /\ wallClock = [day |-> "Mon", hour |-> 0]
  /\ weatherCache = NoWeather /\ feedCache = NoFeeds
  /\ alertsCache = NoAlertData /\ live = NoLive
  /\ response = NoResponse /\ cycles = 0
  /\ BuilderIdle
  /\ CacheIdle
  /\ dAlerts \in UNION {[1 .. n -> AlertValues] : n \in 0 .. MaxAlerts}
  /\ dComplexes = <<>>
  /\ dDone = FALSE
  /\ StationsIdle
  /\ ClientIdle
  /\ PulseIdle

BuildDisruptionMap ==
  /\ ~dDone
  /\ dDone' = TRUE
  /\ dComplexes' = disruptedComplexes(dAlerts, Len(dAlerts), gtfsStopToComplex)
  /\ UNCHANGED dAlerts
  /\ UNCHANGED <<harnessVars, presenceVars, builderVars, cacheVars>>
  /\ UNCHANGED stationVars
  /\ UNCHANGED clientVars
  /\ UNCHANGED pulseVars

NextDisruption == BuildDisruptionMap

SpecDisruption == InitDisruption /\ [][NextDisruption]_vars

----------------------------------------------------------------------------
(* The station load: loadStations() from startup and from the handlers,
   and computePresence once the promise it awaits has resolved *)

\* who calls loadStations(): the module at startup (always the first, the
\* module load being synchronous), then the handlers
Callers == {"startup", "/api/trains", "/api/presence", "/api/stations"}

\* what one run of _loadStations meets: a download that threw (no rows),
\* a download whose third row threw in the loop (rows: the two the loop had
\* handled), and a download whose rows the loop handled to the end
StationDownloads ==
  {NoSource, [ok |-> FALSE, rows |-> SubSeq(StationRows, 1, 2)],
   [ok |-> TRUE, rows |-> StationRows]}

InitStations ==
  /\ ClassifyIdle
  /\ EscalateIdle
  /\ StationIdle
  /\ BuilderIdle
  /\ CacheIdle
  /\ DisruptionIdle
  /\ ridershipModel = FullProfile
  /\ crimeModel = BuiltCrime
  /\ gtfsStopToComplex = loadStations(<<>>)
  /\ apiKey = FALSE
  /\ wallClock = [day |-> "Mon", hour |-> 9]
  /\ weatherCache = NoWeather
  /\ feedCache = NoFeeds
  /\ alertsCache = NoAlertData
  /\ live = NoLive
  /\ response = NoResponse
  /\ cycles = 0
  /\ stationPromise = "null"
  /\ loadStarts = 0
  /\ handed = <<>>
  /\ stationDownload \in StationDownloads
  /\ ClientIdle
  /\ PulseIdle

\* a call of loadStations()
CallLoadStations ==
  /\ Len(handed) < MaxCalls
  /\ \E caller \in Callers :
       /\ caller = "startup" <=> handed = <<>>
       /\ stationPromise' = singleFlight(stationPromise, loadStarts).promise
       /\ loadStarts' = singleFlight(stationPromise, loadStarts).starts
       /\ handed' = Append(handed,
                           singleFlight(stationPromise, loadStarts).returned)
  /\ UNCHANGED stationDownload
  /\ UNCHANGED <<harnessVars, presenceVars, builderVars, cacheVars,
                 disruptionVars>>
  /\ UNCHANGED clientVars
  /\ UNCHANGED pulseVars

\* _loadStations() ends: after the last row, or in its catch block with
\* the stops mapped until then; the promise resolves either way
LoadSettles ==
  /\ stationPromise = "pending"
  /\ stationPromise' = "resolved"
  /\ gtfsStopToComplex' = loadStations(stationDownload.rows)
  /\ UNCHANGED <<loadStarts, handed, stationDownload>>
  /\ UNCHANGED <<ridershipModel, crimeModel, apiKey, wallClock, weatherCache,
                 feedCache, alertsCache, live, response, cycles>>
  /\ UNCHANGED <<harnessVars, builderVars, cacheVars, disruptionVars>>
  /\ UNCHANGED clientVars
  /\ UNCHANGED pulseVars

NextStations ==
  \/ CallLoadStations
  \/ LoadSettles
  \/ stationPromise = "resolved" /\ ComputePresence
  \/ AlertsRoute

SpecStations == InitStations /\ [][NextStations]_vars

----------------------------------------------------------------------------
(* The two classifiers applied to the same arguments *)

InitClient ==
  /\ cRidership \in 0 .. MaxRidership
  /\ cCrimeRisk \in RiskValues
  /\ cHour \in Hours
  /\ cLevel = "none"
  /\ clientLevel = "none"
  /\ bootPc = "boot" /\ exploreMode = "uninitialized" /\ presenceData = 0
  /\ inflight = {} /\ fetchCount = 0 /\ hud = InitialHud
  /\ mapSource = Initial /\ status = "" /\ clientModels = "null"
  /\ EscalateIdle
  /\ StationIdle
  /\ PresenceIdle
  /\ BuilderIdle
  /\ CacheIdle
  /\ DisruptionIdle
  /\ StationsIdle
  /\ PulseIdle

ClassifyClient ==
  /\ clientLevel = "none"
  /\ clientLevel' = computeSafetyLevelClient(cRidership, cCrimeRisk, cHour)
  /\ UNCHANGED <<bootPc, exploreMode, presenceData, inflight, fetchCount, hud,
                 mapSource, status, clientModels>>
  /\ UNCHANGED <<harnessVars, presenceVars, builderVars, cacheVars,
                 disruptionVars, stationVars>>
  /\ UNCHANGED pulseVars

NextClient == Classify \/ ClassifyClient

SpecClient == InitClient /\ [][NextClient]_vars

----------------------------------------------------------------------------
(* The front end from its boot sequence on: fetchPresence at boot and on
   its interval, the explore toggle and the slider *)

InitBoot ==
  /\ ClassifyIdle
  /\ EscalateIdle
  /\ StationIdle
  /\ PresenceIdle
  /\ BuilderIdle
  /\ CacheIdle
  /\ DisruptionIdle
  /\ StationsIdle
  /\ clientLevel = "none"
  /\ bootPc = "boot"
  /\ exploreMode = "uninitialized"
  /\ presenceData = 0
  /\ inflight = {}
  /\ fetchCount = 0
  /\ hud = InitialHud
  /\ mapSource = Initial
  /\ status = ""
  /\ clientModels = "null"
  /\ PulseIdle

\* the boot sequence up to "await fetchPresence()"
BootStart ==
  /\ bootPc = "boot"
  /\ bootPc' = "awaiting"
  /\ clientModels' = "requested"
  /\ status' = "FETCHING"
  /\ fetchCount' = 1
  /\ inflight' = {1}
  /\ UNCHANGED <<clientLevel, exploreMode, presenceData, hud, mapSource>>
  /\ UNCHANGED <<harnessVars, presenceVars, builderVars, cacheVars,
                 disruptionVars, stationVars>>
  /\ UNCHANGED pulseVars

\* loadClientModels() ends: both models set, or left null when a request
\* threw
ClientModelsArrive ==
  /\ clientModels = "requested"
  /\ clientModels' \in {"loaded", "failed"}
  /\ UNCHANGED <<clientLevel, bootPc, exploreMode, presenceData, inflight,
                 fetchCount, hud, mapSource, status>>
  /\ UNCHANGED <<harnessVars, presenceVars, builderVars, cacheVars,
                 disruptionVars, stationVars>>
  /\ UNCHANGED pulseVars

\* fetchPresence() from its await on: the request threw (catch), or
\* presenceData is assigned and exploreMode is read, which throws into the
\* same catch while the let of exploreMode has not been evaluated
FetchPresenceResumes ==
  \E id \in inflight, ok \in BOOLEAN :
    /\ inflight' = inflight \ {id}
    /\ presenceData' = IF ok THEN id ELSE presenceData
    /\ IF ok /\ exploreMode = "false"
         THEN hud' = showLive(id).hud /\ mapSource' = showLive(id).mapSource
         ELSE UNCHANGED <<hud, mapSource>>
    /\ UNCHANGED <<clientLevel, bootPc, exploreMode, fetchCount, status,
                   clientModels>>
    /\ UNCHANGED <<harnessVars, presenceVars, builderVars, cacheVars,
                   disruptionVars, stationVars, pulseVars>>

\* the boot sequence after "await fetchPresence()", to the end of the
\* script: status LIVE, the intervals, "let exploreMode = false" and the
\* listeners of the toggle and the slider
BootResumes ==
  /\ bootPc = "awaiting" /\ 1 \notin inflight
  /\ bootPc' = "running"
  /\ status' = "LIVE"
  /\ exploreMode' = "false"
  /\ UNCHANGED <<clientLevel, presenceData, inflight, fetchCount, hud,
                 mapSource, clientModels>>
  /\ UNCHANGED <<harnessVars, presenceVars, builderVars, cacheVars,
                 disruptionVars, stationVars>>
  /\ UNCHANGED pulseVars

\* setInterval(fetchPresence, 30000) fires
IntervalFetch ==
  /\ bootPc = "running" /\ fetchCount < MaxFetches
  /\ fetchCount' = fetchCount + 1
  /\ inflight' = inflight \cup {fetchCount + 1}
  /\ UNCHANGED <<clientLevel, bootPc, exploreMode, presenceData, hud,
                 mapSource, status, clientModels>>
  /\ UNCHANGED <<harnessVars, presenceVars, builderVars, cacheVars,
                 disruptionVars, stationVars>>
  /\ UNCHANGED pulseVars

\* a click on scrubberToggle
ToggleExplore ==
  /\ bootPc = "running"
  /\ \E h \in ClockHours :
       LET page == [hud |-> hud, mapSource |-> mapSource]
           next == IF exploreMode = "false"
                     THEN renderExploreMode(h, clientModels, page)
                     ELSE restoreLive(presenceData, page)
       IN  /\ exploreMode' = IF exploreMode = "false" THEN "true" ELSE "false"
           /\ status' = IF exploreMode = "false" THEN "EXPLORE" ELSE "LIVE"
           /\ hud' = next.hud
           /\ mapSource' = next.mapSource
  /\ UNCHANGED <<clientLevel, bootPc, presenceData, inflight, fetchCount,
                 clientModels>>
  /\ UNCHANGED <<harnessVars, presenceVars, builderVars, cacheVars,
                 disruptionVars, stationVars>>
  /\ UNCHANGED pulseVars

\* an input event of scrubberSlider
ScrubberInput ==
  /\ bootPc = "running" /\ exploreMode = "true"
  /\ \E h \in ScrubberHours :
       LET next == renderExploreMode(h, clientModels,
                                     [hud |-> hud, mapSource |-> mapSource])
       IN  hud' = next.hud /\ mapSource' = next.mapSource
  /\ UNCHANGED <<clientLevel, bootPc, exploreMode, presenceData, inflight,
                 fetchCount, status, clientModels>>
  /\ UNCHANGED <<harnessVars, presenceVars, builderVars, cacheVars,
                 disruptionVars, stationVars>>
  /\ UNCHANGED pulseVars

NextBoot ==
  \/ BootStart
  \/ ClientModelsArrive
  \/ FetchPresenceResumes
  \/ BootResumes
  \/ IntervalFetch
  \/ ToggleExplore
  \/ ScrubberInput

SpecBoot == InitBoot /\ [][NextBoot]_vars

----------------------------------------------------------------------------
(* The pulse rings: setStations, onTrainUpdate and the animation *)

\* a train of /api/trains
Train(stopId, statusText) ==
  [stopId |-> stopId, hasStopId |-> TRUE, status |-> statusText]

\* trains at a stop in both directions and without direction, in transit,
\* at a stop that is no station, at a stop id that is a direction only, and
\* without stop id
TrainValues ==
  {Train(<<"A", "N">>, "At Station"), Train(<<"A", "S">>, "Incoming"),
   Train(<<"B">>, "At Station"), Train(<<"B", "N">>, "In Transit"),
   Train(<<"C", "S">>, "Incoming"), Train(<<"N">>, "At Station"),
   [Train(<<>>, "At Station") EXCEPT !.hasStopId = FALSE]}

\* the stations of a presence response
StationLists ==
  {<<>>, <<[id |-> <<"A">>, isAnomaly |-> FALSE]>>,
   <<[id |-> <<"A">>, isAnomaly |-> FALSE],
     [id |-> <<"B">>, isAnomaly |-> TRUE]>>}

InitPulse ==
  /\ ClassifyIdle
  /\ EscalateIdle
  /\ StationIdle
  /\ PresenceIdle
  /\ BuilderIdle
  /\ CacheIdle
  /\ DisruptionIdle
  /\ StationsIdle
  /\ ClientIdle
  /\ stationData = <<>>
  /\ pulseRings = <<>>
  /\ previousTrainStops = {}
  /\ lastTrains = <<>>
  /\ updates = 0

\* StationLayer.setStations(presenceData.stations)
SetStations ==
  /\ stationData' \in StationLists
  /\ UNCHANGED <<pulseRings, previousTrainStops, lastTrains, updates>>
  /\ UNCHANGED <<harnessVars, presenceVars, builderVars, cacheVars,
                 disruptionVars, stationVars, clientVars>>

\* StationLayer.onTrainUpdate(data.trains)
OnTrainUpdate ==
  /\ updates < MaxUpdates
  /\ \E n \in 0 .. MaxTrains : \E trains \in [1 .. n -> TrainValues] :
       LET detected == detectArrivals(trains, previousTrainStops)
       IN  /\ previousTrainStops' = detected.previousTrainStops
           /\ pulseRings' = pushRings(pulseRings, detected.arrivals,
                                      Len(detected.arrivals), stationData)
           /\ lastTrains' = trains
  /\ updates' = updates + 1
  /\ UNCHANGED stationData
  /\ UNCHANGED <<harnessVars, presenceVars, builderVars, cacheVars,
                 disruptionVars, stationVars, clientVars>>

\* frame(): render() run for Frames animation frames
Render ==
  /\ pulseRings # <<>>
  /\ pulseRings' = render(pulseRings)
  /\ UNCHANGED <<stationData, previousTrainStops, lastTrains, updates>>
  /\ UNCHANGED <<harnessVars, presenceVars, builderVars, cacheVars,
                 disruptionVars, stationVars, clientVars>>

NextPulse == SetStations \/ OnTrainUpdate \/ Render

SpecPulse == InitPulse /\ [][NextPulse]_vars

----------------------------------------------------------------------------
(* Claims about the classification policy (SpecClassify) *)

TierRank(tier) ==
  CASE tier = "safe" -> 0 [] tier = "caution" -> 1 [] tier = "avoid" -> 2

\* 0 daytime (06-18), 1 evening (18-22), 2 late night (22-06)
PeriodRank(hour) ==
  IF 6 <= hour /\ hour < 18 THEN 0
  ELSE IF 18 <= hour /\ hour < 22 THEN 1
  ELSE 2

\* The decision table of the design, one row per rule, in order.
TableRows ==
  <<[period |-> 0, risk |-> 800, below |-> 15, tier |-> "caution"],
    [period |-> 1, risk |-> 700, below |-> 25, tier |-> "avoid"],
    [period |-> 1, risk |-> 500, below |-> 15, tier |-> "caution"],
    [period |-> 2, risk |-> 500, below |-> 15, tier |-> "avoid"],
    [period |-> 2, risk |-> 300, below |-> 25, tier |-> "caution"],
    [period |-> 2, risk |-> 150, below |-> 5, tier |-> "caution"]>>

\* first matching row wins, "safe" when no row matches
TableTier(ridership, crimeRisk, hour) ==
  LET matching == {i \in DOMAIN TableRows :
                     /\ TableRows[i].period = PeriodRank(hour)
                     /\ crimeRisk >= TableRows[i].risk
                     /\ ridership < TableRows[i].below}
  IN  IF matching = {} THEN "safe"
      ELSE TableRows[CHOOSE i \in matching : \A j \in matching : i <= j].tier

\* C1: for every hour, ridership and crimeRisk computeSafetyLevel returns the
\* tier of the decision table evaluated top-down, first match winning; in
\* particular (10, 0.9, 14) is caution and (10, 0.9, 23) is avoid.
C1_DecisionTable ==
  cLevel # "none" =>
    /\ cLevel = TableTier(cRidership, cCrimeRisk, cHour)
    /\ (cRidership = 10 /\ cCrimeRisk = 900 /\ cHour = 14) => cLevel = "caution"
    /\ (cRidership = 10 /\ cCrimeRisk = 900 /\ cHour = 23) => cLevel = "avoid"

C1_Witness ==
  cLevel = "avoid" /\ cRidership = 10 /\ cCrimeRisk = 900 /\ cHour = 23

\* C2: a non-safe tier needs both factors: with crimeRisk < 0.15 (whatever
\* the ridership) or ridership >= 25 (whatever the crimeRisk) the tier is safe.
C2_BothFactors ==
  (cLevel # "none" /\ (cCrimeRisk < 150 \/ cRidership >= 25)) => cLevel = "safe"

C2_Witness ==
  cLevel = "safe" /\ cRidership = 0 /\ cCrimeRisk = 149 /\ cHour = 23

\* C3: the tier of fixed (ridership, crimeRisk) never decreases from daytime
\* to evening to late night: the tier returned for this hour is at most the
\* tier returned for any hour of the same or a later period.
C3_TightenLater ==
  cLevel # "none" =>
    \A h \in Hours :
      PeriodRank(cHour) <= PeriodRank(h) =>
        TierRank(cLevel) <= TierRank(computeSafetyLevel(cRidership, cCrimeRisk, h))

----------------------------------------------------------------------------
(* Claims about the disruption escalation *)

ClassifiedTier == computeSafetyLevel(sRec.ridership, sIn.crimeRisk, sIn.hour)

NextTier(tier) ==
  CASE tier = "safe" -> "caution" [] tier = "caution" -> "avoid"
    [] tier = "avoid" -> "avoid"

\* C4: the final tier of a record is the classified tier mapped by the
\* disruption of the station: "No Service" moves it one tier up, "Significant
\* Delays" in night mode moves safe to caution, everything else leaves it;
\* the final tier is never below the classified one.
C4_EscalationMap ==
  sRec # NoRecord =>
    LET effect == sIn.disruption.effect
        night == sIn.hour >= 22 \/ sIn.hour < 6
    IN  /\ effect = "No Service" => sRec.safetyLevel = NextTier(ClassifiedTier)
        /\ (effect = "Significant Delays" /\ night /\ ClassifiedTier = "safe")
             => sRec.safetyLevel = "caution"
        /\ (effect = "Significant Delays" /\ night /\ ClassifiedTier # "safe")
             => sRec.safetyLevel = ClassifiedTier
        /\ (effect = "Significant Delays" /\ ~night)
             => sRec.safetyLevel = ClassifiedTier
        /\ effect \notin {"No Service", "Significant Delays"}
             => sRec.safetyLevel = ClassifiedTier
        /\ TierRank(sRec.safetyLevel) >= TierRank(ClassifiedTier)

C4_Witness ==
  /\ sRec # NoRecord
  /\ sIn.disruption.effect = "Significant Delays"
  /\ sIn.hour = 23
  /\ ClassifiedTier = "safe"
  /\ sRec.safetyLevel = "caution"

\* C5 as claimed: applying the escalation step twice gives the tier of
\* applying it once, for every tier and every disruption state.
C5_Idempotent ==
  Len(eTrace) >= 3 => eTrace[3] = eTrace[2]

\* C5 as amended: the escalation step is idempotent for every disruption
\* state but "No Service" on a safe tier, where one application gives
\* caution and a second one gives avoid.
C5_IdempotentButSafeNoService ==
  Len(eTrace) >= 3 =>
    IF eDisruption.effect = "No Service" /\ eTrace[1] = "safe"
      THEN eTrace[2] = "caution" /\ eTrace[3] = "avoid"
      ELSE eTrace[3] = eTrace[2]

C5_Witness ==
  /\ eDisruption.effect = "Significant Delays"
  /\ isNightHour(eHour)
  /\ eTrace = <<"safe", "caution", "caution">>

----------------------------------------------------------------------------
(* Claims about the modulation of one station (SpecStation) *)

ClearWeather ==
  [isNull |-> FALSE, isSnow |-> FALSE, isRain |-> FALSE, isExtreme |-> FALSE]

\* C6 as claimed: with weather multiplier 1.0 and baseline > 0 the ridership
\* lies in [0.7 * baseline, 2 * baseline].
C6_TrainBounds ==
  (sRec # NoRecord /\ sIn.baseline > 0 /\ weatherModifier(sIn.weather) = 100) =>
    /\ 10 * sRec.ridership >= 7 * sIn.baseline
    /\ sRec.ridership <= 2 * sIn.baseline

\* C6 as amended: the ridership is a product in [0.7 * baseline,
\* 2 * baseline] rounded to the nearest integer, so it lies in
\* [0.7 * baseline - 0.5, 2 * baseline].
C6_TrainBoundsRounded ==
  (sRec # NoRecord /\ sIn.baseline > 0 /\ weatherModifier(sIn.weather) = 100) =>
    /\ 10 * sRec.ridership >= 7 * sIn.baseline - 5
    /\ sRec.ridership <= 2 * sIn.baseline

C6_Witness ==
  /\ sRec # NoRecord
  /\ sIn.baseline = 3 /\ sIn.trainCount = 1 /\ sIn.weather = ClearWeather
  /\ sRec.ridership = 2

\* C7 as claimed: baseline 1000, clear weather: 8 trains give 1000 (the
\* expected count being 8), 0 trains give 1000, 16 trains give 2000.
C7_Vector ==
  (sRec # NoRecord /\ sIn.baseline = 1000 /\ sIn.weather = ClearWeather) =>
    /\ sIn.trainCount = 8 =>
         (expectedTrains(sIn.baseline) = 8 /\ sRec.ridership = 1000)
    /\ sIn.trainCount = 0 => sRec.ridership = 1000
    /\ sIn.trainCount = 16 => sRec.ridership = 2000

\* C7 as amended: baseline 1000, clear weather: the expected count is 5;
\* 5 trains give 1000, 0 trains give 1000, 8 trains give 1180, 16 trains
\* give 1660 and 22 trains hit the cap and give 2000.
C7_VectorExpectedFive ==
  (sRec # NoRecord /\ sIn.baseline = 1000 /\ sIn.weather = ClearWeather) =>
    /\ sIn.trainCount = 5 =>
         (expectedTrains(sIn.baseline) = 5 /\ sRec.ridership = 1000)
    /\ sIn.trainCount = 0 => sRec.ridership = 1000
    /\ sIn.trainCount = 8 => sRec.ridership = 1180
    /\ sIn.trainCount = 16 => sRec.ridership = 1660
    /\ sIn.trainCount = 22 => sRec.ridership = 2000

C7_Witness ==
  /\ sRec # NoRecord
  /\ sIn.baseline = 1000 /\ sIn.weather = ClearWeather /\ sIn.trainCount = 22
  /\ sRec.ridership = 2000

\* the end-to-end scenario: baseline 2000, stddev 150, 8 trains, clear
\* weather, crimeRisk 0.2, no disruption, 09:00
Scenario ==
  /\ sRec # NoRecord
  /\ sIn.hour = 9 /\ sIn.baseline = 2000 /\ sIn.stddev = 150
  /\ sIn.trainCount = 8 /\ sIn.weather = ClearWeather
  /\ sIn.crimeRisk = 200 /\ sIn.disruption = NoDisruption

\* C8 as claimed: the scenario emits ridership 2000, isAnomaly false and
\* safetyLevel safe.
C8_EndToEnd ==
  Scenario =>
    sRec.ridership = 2000 /\ ~sRec.isAnomaly /\ sRec.safetyLevel = "safe"

\* C8 as amended: the scenario emits ridership 2360 (2000 is not above 2000,
\* so 5 trains are expected and the modulation is 1.18), isAnomaly true
\* (z-score 2.4) and safetyLevel safe.
C8_EndToEndExpectedFive ==
  Scenario =>
    sRec.ridership = 2360 /\ sRec.isAnomaly /\ sRec.safetyLevel = "safe"

C8_Witness ==
  Scenario /\ sRec.ridership = 2360 /\ sRec.isAnomaly

\* baseline * min(0.7 + 0.3 * trainCount / expected, 2.0) * weatherFactor,
\* unrounded, as the quotient n / d; the train factor is 1 when
\* trainCount = 0 or baseline = 0
UnroundedProduct(in) ==
  LET e == expectedTrains(in.baseline)
      num == 7 * e + 3 * in.trainCount
      den == 10 * e
      w == weatherModifier(in.weather)
  IN  IF in.trainCount = 0 \/ in.baseline = 0
        THEN [n |-> in.baseline * w, d |-> 100]
      ELSE IF num >= 2 * den
        THEN [n |-> 2 * in.baseline * w, d |-> 100]
      ELSE [n |-> in.baseline * num * w, d |-> den * 100]

\* the single rounding of the unrounded product
SingleRounded(in) == MathRound(UnroundedProduct(in).n, UnroundedProduct(in).d)

\* the unrounded product is k + 1/2, where its double may fall on either
\* side of the half
ProductIsHalf(in) ==
  LET q == UnroundedProduct(in)
  IN  (2 * q.n) % q.d = 0 /\ ((2 * q.n) \div q.d) % 2 = 1

\* C9 as claimed: the emitted ridership is the single rounding of the
\* unrounded product of baseline, train factor and weather factor (either
\* neighbour when that product is exactly k + 1/2).
C9_SingleRounding ==
  sRec # NoRecord =>
    \/ sRec.ridership = SingleRounded(sIn)
    \/ ProductIsHalf(sIn) /\ sRec.ridership = SingleRounded(sIn) - 1

\* C9 as amended: the ridership is rounded after the train modulation and
\* again after the weather factor, which moves it at most 1 away from the
\* single rounding of the unrounded product; without trains or without
\* baseline the train factor is 1, so that clear weather emits the baseline.
C9_TwoRoundings ==
  sRec # NoRecord =>
    /\ Abs(sRec.ridership - SingleRounded(sIn)) <= 1
    /\ ((sIn.trainCount = 0 \/ sIn.baseline = 0)
          /\ weatherModifier(sIn.weather) = 100) => sRec.ridership = sIn.baseline

C9_Witness ==
  /\ sRec # NoRecord
  /\ sIn.baseline = 3 /\ sIn.trainCount = 1 /\ sIn.weather.isSnow
  /\ sRec.ridership = 1
  /\ SingleRounded(sIn) = 2

\* the factor the claim gives for a weather descriptor, in hundredths
ClaimedFactor(weather) ==
  CASE weather.isNull -> 100
    [] ~weather.isNull /\ weather.isSnow -> 70
    [] ~weather.isNull /\ ~weather.isSnow /\ weather.isRain -> 80
    [] ~weather.isNull /\ ~weather.isSnow /\ ~weather.isRain /\ weather.isExtreme -> 85
    [] OTHER -> 100

\* C10: exactly one factor is applied to the ridership after the train
\* modulation: 0.70 with isSnow, else 0.80 with isRain, else 0.85 with
\* isExtreme, else 1.0 (also for a null weather); a station at 1000 under
\* snow is emitted with 700.
C10_WeatherFactor ==
  sRec # NoRecord =>
    LET postTrain == trainModulated(sIn.baseline, sIn.trainCount)
    IN  /\ postTrain % 100 = 0 =>
             100 * sRec.ridership = postTrain * ClaimedFactor(sIn.weather)
        /\ (postTrain = 1000 /\ sIn.weather.isSnow) => sRec.ridership = 700

C10_Witness ==
  /\ sRec # NoRecord
  /\ sIn.baseline = 1000 /\ sIn.trainCount = 0
  /\ sIn.weather.isSnow /\ sIn.weather.isExtreme
  /\ sRec.ridership = 700

----------------------------------------------------------------------------
(* Claims about anomaly detection and the record (SpecStation) *)

\* the anomaly rule as the design states it
ClaimedAnomaly(ridership, baseline, stddev) ==
  /\ baseline > 50
  /\ \/ stddev > 0 /\ Abs(ridership - baseline) > 2 * stddev
     \/ stddev = 0 /\ 10 * Abs(ridership - baseline) > 3 * baseline

\* C11: isAnomaly is true iff baseline > 50 and either stddev > 0 and
\* |ridership - baseline| > 2.0 * stddev, or stddev is 0 (or missing) and
\* |ridership - baseline| > 0.3 * baseline.  No record with baseline <= 50 is
\* flagged (baseline 40 with ridership 60 is not), and baseline 100,
\* stddev 10, ridership 125 is flagged.
C11_AnomalyRule ==
  /\ isAnomaly(125, 100, 10)
  /\ ~isAnomaly(60, 40, 0) /\ ~isAnomaly(60, 40, 10)
  /\ sRec # NoRecord =>
       /\ sRec.isAnomaly =
            ClaimedAnomaly(sRec.ridership, sRec.baseline, sIn.stddev)
       /\ sRec.baseline <= 50 => ~sRec.isAnomaly
       /\ (sRec.baseline = 40 /\ sRec.ridership = 60) => ~sRec.isAnomaly

\* a record of baseline 100 and stddev 10 that six trains lift to 130 is
\* flagged, and a record of baseline 40 lifted to 60 exists
C11_Witness ==
  /\ sRec # NoRecord
  /\ sRec.baseline = 100 /\ sIn.stddev = 10 /\ sRec.ridership = 130
  /\ sRec.isAnomaly

\* C12 as stated: every record has ridership >= 0, safetyLevel in
\* {safe, caution, avoid}, and anomalyScore equal to
\* (ridership - baseline) / baseline when baseline > 0 and 0 when
\* baseline = 0.  anomalyScore is in thousandths.
C12_RecordInvariant ==
  sRec # NoRecord =>
    /\ sRec.ridership >= 0
    /\ sRec.safetyLevel \in Tiers
    /\ sRec.baseline > 0 =>
         sRec.anomalyScore * sRec.baseline
           = 1000 * (sRec.ridership - sRec.baseline)
    /\ sRec.baseline = 0 => sRec.anomalyScore = 0

\* C12 amended: the anomalyScore of a record is (ridership - baseline) /
\* baseline rounded to three decimals, so within 0.0005 of the quotient.
C12_RecordInvariantRounded ==
  sRec # NoRecord =>
    /\ sRec.ridership >= 0
    /\ sRec.safetyLevel \in Tiers
    /\ sRec.baseline > 0 =>
         2 * Abs(sRec.anomalyScore * sRec.baseline
                   - 1000 * (sRec.ridership - sRec.baseline)) <= sRec.baseline
    /\ sRec.baseline = 0 => sRec.anomalyScore = 0

\* baseline 3 with one train gives ridership 2 and the score -0.333
C12_Witness ==
  /\ sRec # NoRecord
  /\ sRec.baseline = 3 /\ sRec.ridership = 2 /\ sRec.anomalyScore = -333

----------------------------------------------------------------------------
(* Claims about the presence cycle (SpecPresence) *)

\* the profile stations that have an hourly entry for the current day
StationsOfDay ==
  {id \in DOMAIN ridershipModel :
     wallClock.day \in DOMAIN ridershipModel[id].hourly}

\* C13: the stations array is sorted in non-increasing order of ridership:
\* stations[i].ridership >= stations[j].ridership for all i < j, so the
\* first station has the maximum ridership of the cycle.
C13_SortedByRidership ==
  response # NoResponse =>
    LET st == response.stations
    IN  /\ \A i, j \in DOMAIN st :
             i < j => st[i].ridership >= st[j].ridership
        /\ \A j \in DOMAIN st : st[1].ridership >= st[j].ridership

\* station 2, the second of the loop, is the busiest and comes first
C13_Witness ==
  /\ response # NoResponse
  /\ Len(response.stations) = 3
  /\ response.stations[1].id = 2
  /\ response.stations[1].ridership > response.stations[2].ridership
  /\ response.stations[2].ridership > response.stations[3].ridership

\* the sum of the ridership of the records at the given indices
RECURSIVE RidershipSum(_, _)
RidershipSum(st, indices) ==
  IF indices = {} THEN 0
  ELSE LET i == CHOOSE x \in indices : TRUE
       IN  st[i].ridership + RidershipSum(st, indices \ {i})

\* C14: totalPresence is the sum of ridership over the returned stations,
\* anomalyCount the number of returned records with isAnomaly, the three
\* safetyStats the numbers of records of each final tier, which sum to
\* stations.length, and isNightMode is true iff hour >= 22 or hour < 6.
C14_Aggregates ==
  response # NoResponse =>
    LET st == response.stations
        count(tier) == Cardinality({i \in DOMAIN st : st[i].safetyLevel = tier})
    IN  /\ response.totalPresence = RidershipSum(st, DOMAIN st)
        /\ response.anomalyCount = Cardinality({i \in DOMAIN st : st[i].isAnomaly})
        /\ response.safetyStats.avoid = count("avoid")
        /\ response.safetyStats.caution = count("caution")
        /\ response.safetyStats.safe = count("safe")
        /\ response.safetyStats.avoid + response.safetyStats.caution
             + response.safetyStats.safe = Len(st)
        /\ response.isNightMode <=> (response.hour >= 22 \/ response.hour < 6)

\* a night cycle with one station of each tier, one of them escalated by a
\* disruption and flagged as an anomaly, and a ridership that differs from
\* the baseline
C14_Witness ==
  /\ response # NoResponse
  /\ response.isNightMode
  /\ response.safetyStats = [avoid |-> 1, caution |-> 1, safe |-> 1]
  /\ response.anomalyCount = 1
  /\ response.totalPresence = 62
  /\ \E i \in DOMAIN response.stations :
       /\ response.stations[i].hasDisruption
       /\ response.stations[i].ridership # response.stations[i].baseline

\* no train feed could be fetched in the cycle
TrainDataMissing == \A f \in DOMAIN live.feeds : live.feeds[f].isNull

\* the weather request was not made (no API key) or failed
WeatherMissing == ~live.weatherFromCache /\ live.fetchedWeather.isNull

\* the alerts feed could not be fetched and no cached alerts were used
AlertDataMissing == ~live.alertsFromCache /\ live.alertsFeed.isNull

\* the number of arrivals within the window that the fetched feeds report
\* for the stops of a complex
ArrivalsAt(id) ==
  Cardinality(UNION {
    {<<f, i>> : i \in {j \in DOMAIN live.feeds[f].entity :
                         LET stu == live.feeds[f].entity[j]
                         IN  /\ ~live.feeds[f].isNull
                             /\ stu.hasStopId /\ stu.hasArrival
                             /\ -300 < stu.arrival /\ stu.arrival < 300
                             /\ complexOf(gtfsStopToComplex, stu.stopId) = id}}
    : f \in DOMAIN live.feeds})

\* an alert of the cycle names a stop of the complex
AlertedAt(id) ==
  \E a \in DOMAIN live.alerts :
    \E s \in DOMAIN live.alerts[a].affectedStops :
      complexOf(gtfsStopToComplex, live.alerts[a].affectedStops[s]) = id

\* C15: each live signal degrades independently.  Whatever subset of train
\* feeds, weather and alerts is unavailable, computePresence returns a
\* record for every profile station (of the day), with trainCount 0 and
\* train factor 1 when train data is missing, weather multiplier 1.0 when
\* weather is null, no escalation when alert data is missing, and the
\* signals that are available applied.
C15_IndependentDegradation ==
  response # NoResponse =>
    LET st == response.stations
    IN  /\ {st[i].id : i \in DOMAIN st} = StationsOfDay
        /\ ~apiKey => live.weather.isNull
        /\ (WeatherMissing /\ weatherCache.isNull) => live.weather.isNull
        /\ (~live.weatherFromCache /\ ~live.fetchedWeather.isNull) =>
             live.weather = live.fetchedWeather
        /\ \A i \in DOMAIN st :
             LET r == st[i]
             IN  /\ TrainDataMissing =>
                      /\ r.trainCount = 0
                      /\ r.ridership =
                           applyWeather(r.baseline, weatherModifier(live.weather))
                 /\ live.weather.isNull =>
                      r.ridership = trainModulated(r.baseline, r.trainCount)
                 /\ AlertDataMissing =>
                      /\ ~r.hasDisruption
                      /\ r.safetyLevel =
                           computeSafetyLevel(r.ridership, r.crimeRisk, response.hour)
                 /\ r.trainCount = ArrivalsAt(r.id)
                 /\ r.ridership =
                      modulatedRidership(r.baseline, r.trainCount,
                                         weatherModifier(live.weather))
                 /\ r.hasDisruption <=> AlertedAt(r.id)

\* a cycle without train and alert data in which the rain fetched is still
\* applied: baseline 100 becomes 80
C15_Witness ==
  /\ response # NoResponse
  /\ TrainDataMissing /\ AlertDataMissing
  /\ ~live.weatherFromCache /\ live.fetchedWeather = Rain
  /\ \E i \in DOMAIN response.stations :
       /\ response.stations[i].baseline = 100
       /\ response.stations[i].ridership = 80
       /\ ~response.stations[i].hasDisruption

\* a function without the arguments that are not profile stations
ProfileOnly(f) == [id \in DOMAIN f \cap DOMAIN ridershipModel |-> f[id]]

\* the profile without the stations that have no data for the day
DayProfile == [id \in StationsOfDay |-> ridershipModel[id]]

----------------------------------------------------------------------------
(* Claims about the ridership model builder (SpecRidershipBuild) *)

\* the fetched rows that fall in the bucket of a station, day and hour:
\* those with the station's id and with coordinates
BucketEvents(id, day, hour) ==
  {i \in DOMAIN ridershipSource.rows :
     LET row == ridershipSource.rows[i]
     IN  /\ row.id = id /\ row.day = day /\ row.hour = hour
         /\ row.lat \notin {0, NaN} /\ row.lon \notin {0, NaN}}

\* the sum of the rider counts of the given rows, or of their squares
RECURSIVE RiderSum(_, _)
RiderSum(events, squared) ==
  IF events = {} THEN 0
  ELSE LET i == CHOOSE x \in events : TRUE
           text == ridershipSource.rows[i].ridership
           n == IF text = NaN THEN 0 ELSE text
       IN  (IF squared THEN n * n ELSE n) + RiderSum(events \ {i}, squared)

\* C17: for every station that aggregate(rows) emits, all 7x24 cells of
\* hourly and of stddev exist, are numbers and are >= 0; a cell whose bucket
\* received no event is 0 in both grids; and a cell is the rounded mean and
\* the rounded population standard deviation of the events of its own
\* (station, day, hour) bucket, whatever the other buckets received.
C17_GridInvariant ==
  ridershipExit = "success" =>
    \A id \in DOMAIN ridershipFile.stations :
      LET s == ridershipFile.stations[id]
      IN  /\ DOMAIN s.hourly = Days /\ DOMAIN s.stddev = Days
          /\ \A d \in Days :
               DOMAIN s.hourly[d] = Hours /\ DOMAIN s.stddev[d] = Hours
          /\ \A d \in Days, h \in Hours :
               LET events == BucketEvents(id, d, h)
                   c == Cardinality(events)
                   sum == RiderSum(events, FALSE)
                   v == c * RiderSum(events, TRUE) - sum * sum
                   m == s.hourly[d][h]
                   k == s.stddev[d][h]
               IN  /\ m \in Nat /\ k \in Nat
                   /\ c = 0 => m = 0 /\ k = 0
                   /\ c > 0 =>
                        /\ (2 * m - 1) * c <= 2 * sum
                        /\ 2 * sum < (2 * m + 1) * c
                        /\ k = 0 \/ (2 * k - 1) * (2 * k - 1) * c * c <= 4 * v
                        /\ 4 * v < (2 * k + 1) * (2 * k + 1) * c * c

\* counts 10 and 30 on Monday at 9 give mean 20 and deviation 10, a count
\* of 7 on Tuesday at 0 gives 7 and 0, and Monday at 10 stays 0
C17_Witness ==
  /\ ridershipExit = "success"
  /\ 1 \in DOMAIN ridershipFile.stations
  /\ ridershipFile.stations[1].hourly["Mon"][9] = 20
  /\ ridershipFile.stations[1].stddev["Mon"][9] = 10
  /\ ridershipFile.stations[1].hourly["Tue"][0] = 7
  /\ ridershipFile.stations[1].stddev["Tue"][0] = 0
  /\ ridershipFile.stations[1].hourly["Mon"][10] = 0

\* C18: when the ridership source returns zero events, the builder does
\* not fail: it completes successfully and emits a valid model whose
\* station set is empty.
C18_EmptySourceEmptyModel ==
  (ridershipExit # "running" /\ ridershipSource.ok
     /\ ridershipSource.rows = <<>>) =>
    /\ ridershipExit = "success"
    /\ ridershipFile.written
    /\ DOMAIN ridershipFile.stations = {}

----------------------------------------------------------------------------
(* Claims about the crime model builder (SpecCrimeBuild) *)

\* C19: when the incident source returns zero rows, the crime builder
\* aborts with a failure exit before computing or writing anything:
\* computeStationRisk is not run and crime-model.json is as it was before
\* the run, so no all-zero model is emitted.
C19_AbortOnZeroRows ==
  (crimeExit # "running" /\ crimeSource.ok /\ crimeSource.rows = <<>>) =>
    /\ crimeExit = "failure"
    /\ ~riskComputed
    /\ crimeFile = crimeFileBefore

\* a run that could read the stations, got zero rows and left the model
\* of the earlier build in place
C19_Witness ==
  /\ crimeExit = "failure"
  /\ ridershipFile.written
  /\ crimeSource.ok /\ crimeSource.rows = <<>>
  /\ crimeFile = EarlierCrimeFile

\* C20: after computeStationRisk, for every station and each of the four
\* windows the normalized field <window>Risk is defined and lies in
\* [0, 1], and every station that attains the maximum raw weighted sum of
\* a window has <window>Risk exactly 1.0, also when some window received
\* no incident at any station.
C20_NormalizedRisk ==
  crimeExit = "success" =>
    \A id \in DOMAIN crimeFile.stationRisk, w \in Windows :
      LET risk == crimeFile.stationRisk
      IN  /\ w \in DOMAIN risk[id].windowRisk
          /\ risk[id].windowRisk[w] >= 0 /\ risk[id].windowRisk[w] <= 1000
          /\ (\A other \in DOMAIN risk :
                 ~greater(risk[other].raw[w], risk[id].raw[w]))
               => risk[id].windowRisk[w] = 1000

\* the incidents of the run that pass the inclusion test of a station: those
\* with coordinates and a time window, inside the bounding box and at most
\* 400 m away.  window "any" stands for all four windows.
IncidentsNear(id, window) ==
  {i \in DOMAIN crimeSource.rows :
     LET crime == crimeSource.rows[i]
     IN  /\ ~noCoordinates(crime)
         /\ crimeTimeWindow(crime.hour) # "none"
         /\ window \in {"any", crimeTimeWindow(crime.hour)}
         /\ withinRadius(ridershipFile.stations[id], crime)}

\* the exact sum of the recency weights of the given incidents, in
\* hundred-thousandths
RECURSIVE WeightSum(_)
WeightSum(incidents) ==
  IF incidents = {} THEN 0
  ELSE LET i == CHOOSE x \in incidents : TRUE
       IN  recencyWeight(crimeSource.rows[i].daysAgo).nom
             + WeightSum(incidents \ {i})

\* every station has counted each incident that passes its inclusion test,
\* and no other: total is their number, each window sum and totalWeighted
\* are sums of their recency weights
CountedAtEveryStation ==
  \A id \in DOMAIN crimeFile.stationRisk :
    LET risk == crimeFile.stationRisk[id]
    IN  /\ risk.total = Cardinality(IncidentsNear(id, "any"))
        /\ risk.totalWeighted.nom = WeightSum(IncidentsNear(id, "any"))
        /\ \A w \in Windows : risk.raw[w].nom = WeightSum(IncidentsNear(id, w))

\* morning + afternoon + evening + latenight of a station, as doubles
WindowTotal(risk) ==
  plus(plus(plus(risk.raw["morning"], risk.raw["afternoon"]),
            risk.raw["evening"]), risk.raw["latenight"])

----------------------------------------------------------------------------
(* Claims about both builders (SpecBuild) *)

\* latitude or longitude zero, NaN or missing
Malformed(row) == row.lat \in {0, NaN} \/ row.lon \in {0, NaN}

\* the input without its malformed rows
WithoutMalformed(rows) == SelectSeq(rows, LAMBDA row : ~Malformed(row))

\* C22: events and incidents with malformed coordinates are dropped
\* without failing the run: such an event adds to no bucket and creates no
\* station, such an incident changes no station's sums, total or
\* crime-type weights, and the rest of the input is processed as if the
\* malformed rows were absent.
C22_MalformedDropped ==
  /\ ridershipExit # "running" =>
       /\ ridershipExit = "success"
       /\ ridershipFile.stations
            = aggregate(WithoutMalformed(ridershipSource.rows))
       /\ \A id \in DOMAIN ridershipFile.stations :
            \E i \in DOMAIN ridershipSource.rows :
              ridershipSource.rows[i].id = id
                /\ ~Malformed(ridershipSource.rows[i])
  /\ crimeExit # "running" =>
       /\ crimeExit = "success"
       /\ addCrimes(crimeSource.rows, Len(crimeSource.rows),
                    ridershipFile.stations)
            = addCrimes(WithoutMalformed(crimeSource.rows),
                        Len(WithoutMalformed(crimeSource.rows)),
                        ridershipFile.stations)
       /\ crimeFile.stationRisk
            = computeStationRisk(ridershipFile.stations,
                                 WithoutMalformed(crimeSource.rows))

\* a run whose events of station 3 all lack coordinates and whose second
\* incident has none: station 3 is not created, and station 1 has counted
\* the first incident alone
C22_Witness ==
  /\ ridershipExit = "success" /\ crimeExit = "success"
  /\ \E i \in DOMAIN ridershipSource.rows :
       ridershipSource.rows[i].id = 3 /\ Malformed(ridershipSource.rows[i])
  /\ DOMAIN ridershipFile.stations = {1}
  /\ Len(crimeSource.rows) = 2 /\ Malformed(crimeSource.rows[2])
  /\ crimeFile.stationRisk[1].total = 1
  /\ crimeFile.stationRisk[1].topCrimeType = "ROBBERY"

----------------------------------------------------------------------------
(* Claims about the cache utility (SpecCache) *)

\* a request that arrives while a fresh entry exists is answered with the
\* stored data, without a call of fetchFn and without a change of the cache
HitOnFresh ==
  (nextId' # nextId /\ presenceCache # NoEntry
     /\ clock - presenceCache.ts < TTL) =>
    /\ served' = Append(served, [arrived |-> clock, kind |-> "hit",
                                 data |-> presenceCache.data,
                                 ts |-> presenceCache.ts])
    /\ invoked' = invoked
    /\ pending' = pending
    /\ presenceCache' = presenceCache

\* no 30-second window holds two calls of computePresence
OncePerTtl ==
  \A i, j \in DOMAIN invoked : i < j => invoked[j] - invoked[i] >= TTL

\* some computation so far has failed
SomeFailed == \E k \in DOMAIN served : served[k].kind \in {"stale", "error"}

Age(answer) == answer.arrived - answer.ts

C26_TimestampNeverGoesBack ==
  [][presenceCache # NoEntry => presenceCache'.ts >= presenceCache.ts]_vars

----------------------------------------------------------------------------
(* Claims about the disruption map (SpecDisruption) *)

\* the alerts that affect a complex: those with a stop of the complex
Affecting(complexId) ==
  {i \in DOMAIN dAlerts :
     \E k \in DOMAIN dAlerts[i].affectedStops :
       complexOf(gtfsStopToComplex, dAlerts[i].affectedStops[k]) = complexId}

\* the effect the claim gives a complex
ClaimedEffect(complexId) ==
  LET alerts == Affecting(complexId)
      first == CHOOSE i \in alerts : \A j \in alerts : i <= j
  IN  IF \E i \in alerts : dAlerts[i].effect = "No Service"
        THEN "No Service"
      ELSE IF \E i \in alerts : dAlerts[i].effect = "Significant Delays"
        THEN "Significant Delays"
      ELSE dAlerts[first].effect

\* C25: for every complex affected by one or more alerts, in any order, the
\* recorded effect is 'No Service' if any alert affecting it has that
\* effect, otherwise 'Significant Delays' if any has that effect, otherwise
\* the effect of the first alert that affected it; routes is the
\* duplicate-free union of the affectedRoutes of all alerts affecting it.
C25_DisruptionPrecedence ==
  dDone =>
    /\ DOMAIN dComplexes
         = {c \in {1, 2, 3, 9} : Affecting(c) # {}}
    /\ \A c \in DOMAIN dComplexes :
         LET routes == dComplexes[c].routes
         IN  /\ dComplexes[c].effect = ClaimedEffect(c)
             /\ {routes[k] : k \in DOMAIN routes}
                  = UNION {{dAlerts[i].affectedRoutes[k] :
                              k \in DOMAIN dAlerts[i].affectedRoutes} :
                           i \in Affecting(c)}
             /\ \A j, k \in DOMAIN routes : j # k => routes[j] # routes[k]

\* a detour, then significant delays, then no service at complex 1: the
\* last alert decides, and the routes of all three are recorded once
C25_Witness ==
  /\ dDone /\ Len(dAlerts) = 3
  /\ dAlerts[1].effect = "Detour" /\ dAlerts[2].effect = "Significant Delays"
  /\ dAlerts[3].effect = "No Service"
  /\ Affecting(1) = {1, 2, 3}
  /\ dComplexes[1].effect = "No Service"
  /\ Len(dComplexes[1].routes) = 3
  /\ dComplexes[2].effect = "No Service"

----------------------------------------------------------------------------
(* Claims about the station load (SpecStations) *)

\* C27: over any number and interleaving of loadStations() callers,
\* _loadStations starts at most once and every caller awaits that same
\* promise; if that load fails, the promise still resolves,
\* gtfsStopToComplex stays empty for the rest of the process, and every
\* later computePresence reports trainCount 0 and no disruption for all
\* stations.
C27_SingleFlightLoad ==
  /\ loadStarts <= 1
  /\ \A k \in DOMAIN handed : handed[k] = 1
  /\ (stationPromise = "resolved" /\ ~stationDownload.ok) =>
       /\ DOMAIN gtfsStopToComplex = {}
       /\ response # NoResponse =>
            \A i \in DOMAIN response.stations :
              /\ response.stations[i].trainCount = 0
              /\ ~response.stations[i].hasDisruption

\* C27 as amended: the same, of a load that fails before its loop over
\* the rows has mapped a stop.
C27_SingleFlightLoadFailingEarly ==
  /\ loadStarts <= 1
  /\ \A k \in DOMAIN handed : handed[k] = 1
  /\ (stationPromise = "resolved" /\ ~stationDownload.ok
        /\ stationDownload.rows = <<>>) =>
       /\ DOMAIN gtfsStopToComplex = {}
       /\ response # NoResponse =>
            \A i \in DOMAIN response.stations :
              /\ response.stations[i].trainCount = 0
              /\ ~response.stations[i].hasDisruption

\* after a download that threw and four calls of loadStations(), a cycle
\* whose feeds carried arrivals and whose alerts named stops reports no
\* train and no disruption at any station
C27_Witness ==
  /\ stationDownload = NoSource /\ stationPromise = "resolved"
  /\ loadStarts = 1 /\ Len(handed) = MaxCalls
  /\ response # NoResponse /\ response.stations # <<>>
  /\ live.feeds = <<FeedA, FeedB>> /\ live.alerts # <<>>
  /\ \A i \in DOMAIN response.stations :
       /\ response.stations[i].trainCount = 0
       /\ ~response.stations[i].hasDisruption

----------------------------------------------------------------------------
(* Claims about the front end (SpecClient) *)

\* C28: for every hour 0..23, ridership >= 0 and crimeRisk in [0, 1],
\* computeSafetyLevelClient returns the same tier as the server's
\* computeSafetyLevel.
C28_ClientMatchesServer ==
  (cLevel # "none" /\ clientLevel # "none") => clientLevel = cLevel

\* an evening hour at which both return "avoid" with a ridership that the
\* late-night rule would not flag
C28_Witness ==
  /\ cHour = 21 /\ cRidership = 20 /\ cCrimeRisk >= 700
  /\ cLevel = "avoid" /\ clientLevel = "avoid"

----------------------------------------------------------------------------
(* Claims about the front end from its boot sequence on (SpecBoot) *)

\* a fetchPresence resumes after its request
FetchCompletes == inflight' # inflight /\ fetchCount' = fetchCount

\* a fetchPresence resumes with a response
FetchSucceeds == FetchCompletes /\ presenceData' # presenceData

\* C29: when boot sets the status to LIVE after the first successful
\* fetchPresence(), the HUD counters and the map's 'presence' source have
\* already been updated; every fetchPresence that succeeds while explore
\* mode is off updates the map, and every one that completes while explore
\* mode is on stores the data without touching the map.
C29_BootOrdering ==
  [][/\ (bootPc = "awaiting" /\ status' = "LIVE" /\ presenceData # 0) =>
          /\ hud = showLive(presenceData).hud
          /\ mapSource = Live(presenceData)
     /\ (FetchSucceeds /\ exploreMode # "true") =>
          mapSource' = Live(presenceData')
     /\ (FetchCompletes /\ exploreMode = "true") =>
          mapSource' = mapSource]_vars

----------------------------------------------------------------------------
(* Claims about the pulse rings (SpecPulse) *)

\* the stops, direction stripped, at which some train of an update is
\* 'At Station' or 'Incoming'
Occupied(trains) ==
  {stripDirection(trains[i].stopId) :
     i \in {j \in DOMAIN trains :
              /\ trains[j].status \in {"At Station", "Incoming"}
              /\ trains[j].hasStopId}} \ {<<>>}

\* the rings that a step has added at the end of pulseRings
NewRings == {i \in DOMAIN pulseRings' : i > Len(pulseRings)}

\* C30: a pulse ring is created for a stop in an update only if some train
\* is 'At Station' or 'Incoming' at that stop (N/S suffix stripped) in the
\* current update, none was there in the immediately preceding update, and
\* the stop id matches a known station; a stop occupied in consecutive
\* updates gets no new ring, a stop gets at most one ring per update, and
\* previousTrainStops is the occupied-stop set of the most recent update.
C30_EdgeTriggeredPulses ==
  [][updates' # updates =>
       /\ SubSeq(pulseRings', 1, Len(pulseRings)) = pulseRings
       /\ \A i \in NewRings :
            /\ pulseRings'[i].at \in Occupied(lastTrains')
            /\ pulseRings'[i].at \notin Occupied(lastTrains)
            /\ \E k \in DOMAIN stationData :
                 stationData[k].id = pulseRings'[i].at
            /\ \A j \in NewRings : pulseRings'[j].at = pulseRings'[i].at => j = i
       /\ previousTrainStops' = Occupied(lastTrains')]_vars

\* after an update with trains at A in both directions and at B, and a
\* second one with a train still at A: one ring at A and one at B
C30_Witness ==
  /\ updates = 2
  /\ Len(pulseRings) = 2
  /\ pulseRings[1].at = <<"A">> /\ pulseRings[2].at = <<"B">>
  /\ pulseRings[1].age = 0 /\ pulseRings[2].age = 0
  /\ previousTrainStops = {<<"A">>}
  /\ Len(lastTrains) = 2

====
